---- MODULE Spec2Model ----
(***************************************************************************)
(* Signature-collection coordinator of rust-factors.                       *)
(*                                                                         *)
(* Two drafts of the coordinator live in the repository and both are       *)
(* modelled:                                                               *)
(*   - redone_functional: SignaturesBuilder over Petitions /               *)
(*     PetitionOfTransaction / PetitionOfTransactionByEntity /             *)
(*     PetitionWithFactors (variables petitions, factor_to_txid,           *)
(*     factors_of_kind, outcome);                                          *)
(*   - SignaturesBuilderLevel0/1/2 (variables builders_level_0,            *)
(*     prompted_factor_sources, failed_transactions).                      *)
(* A panic (assert!, expect, unwrap, todo!, panic!) is the control state   *)
(* "panicked", with its message in `panic`; nothing runs after it.         *)
(***************************************************************************)
EXTENDS Integers, Sequences, FiniteSets, TLC

VARIABLES
    all_factor_sources_in_profile, \* id -> [kind, last_used] (configured sources)
    transactions,                  \* the input transactions, in input order
    pc,                            \* control state of the operation under way
    panic,                         \* message of the panic that ended it, or NoPanic
    factors_of_kind,               \* IndexMap<FactorSourceKind, IndexSet<FactorSource>>
    factor_to_txid,                \* HashMap<FactorSourceID, IndexSet<IntentHash>>
    petitions,                     \* txid_to_petition (redone_functional)
    outcome,                       \* SignaturesOutcome returned by sign()
    cursor,                        \* position of do_sign in factors_of_kind
    builders_level_0,              \* IntentHash -> entity -> SignaturesBuilderLevel2
    prompted_factor_sources,       \* SignaturesBuilderLevel0.prompted_factor_sources
    failed_transactions,           \* SignaturesBuilderLevel0.failed_transactions
    history                        \* observation: prompts and deliveries so far

vars == <<all_factor_sources_in_profile, transactions, pc, panic, factors_of_kind,
          factor_to_txid, petitions, outcome, cursor, builders_level_0,
          prompted_factor_sources, failed_transactions, history>>

-----------------------------------------------------------------------------
(* Bounds of the model *)

MaxTxs == 2

MaxLastUsed == 2

-----------------------------------------------------------------------------
(* FactorSourceKind, in declaration order (derive(PartialOrd, Ord))         *)

Ledger == 0

Arculus == 1

SecurityQuestions == 2

OffDeviceMnemonic == 3

Device == 4

FactorSourceKinds == {Ledger, Arculus, SecurityQuestions, OffDeviceMnemonic, Device}

(* Factor source ids of the model's universe.  UnknownSource is never in    *)
(* the profile.  FactorSourceID, IntentHash and the addresses are           *)
(* placeholder structs in types.rs; the model takes them as the distinct    *)
(* identifiers they stand for.                                              *)
LedgerA == "Ledger_A"

LedgerB == "Ledger_B"

ArculusA == "Arculus_A"

DeviceA == "Device_A"

UnknownSource == "Unknown_X"

ConfiguredIds == {LedgerA, LedgerB, ArculusA, DeviceA}

KindOfId(id) ==
    CASE id \in {LedgerA, LedgerB} -> Ledger
      [] id = ArculusA -> Arculus
      [] OTHER -> Device

(* The profiles: every configured id, the two Ledgers with any last_used.   *)
Profiles ==
    { [id \in ConfiguredIds |->
          [kind |-> KindOfId(id),
           last_used |-> IF id = LedgerA THEN a ELSE IF id = LedgerB THEN b ELSE 1]]
      : a \in 1..MaxLastUsed, b \in 1..MaxLastUsed }

-----------------------------------------------------------------------------
(* Entities and their security state (types.rs)                             *)

Unsecured(f) ==
    [securified |-> FALSE, threshold_factors |-> <<f>>, threshold |-> 1,
     override_factors |-> <<>>]

Securified(th, k, ov) ==
    [securified |-> TRUE, threshold_factors |-> th, threshold |-> k,
     override_factors |-> ov]

AccountOrPersona(a, s) == [address |-> a, security_state |-> s]

MatrixS2 == Securified(<<LedgerA, LedgerB, ArculusA>>, 2, <<DeviceA>>)

(* entities_requiring_auth of the transactions the model draws from         *)
EntityLists ==
    { <<>>,
      <<AccountOrPersona("E1", Unsecured(DeviceA))>>,
      <<AccountOrPersona("E1", Unsecured(LedgerA))>>,
      <<AccountOrPersona("E2", Unsecured(LedgerB))>>,
      <<AccountOrPersona("E1", MatrixS2)>>,
      <<AccountOrPersona("E1", Securified(<<LedgerA>>, 1, <<LedgerA>>))>>,
      <<AccountOrPersona("E1", Securified(<<LedgerA, LedgerB>>, 2, <<>>))>>,
      <<AccountOrPersona("E1", Unsecured(UnknownSource))>>,
      <<AccountOrPersona("E1", Securified(<<LedgerB, ArculusA>>, 1, <<DeviceA>>))>>,
      <<AccountOrPersona("E1", Securified(<<LedgerB>>, 1, <<DeviceA>>))>>,
      <<AccountOrPersona("E1", Securified(<<LedgerA>>, 2, <<>>))>>,
      <<AccountOrPersona("E1", Unsecured(LedgerA)),
        AccountOrPersona("E2", Unsecured(LedgerA))>>,
      <<AccountOrPersona("E1", Unsecured(LedgerA)),
        AccountOrPersona("E2", Unsecured(DeviceA))>>,
      <<AccountOrPersona("E1", Unsecured(DeviceA)),
        AccountOrPersona("E2", Securified(<<LedgerB>>, 1, <<DeviceA>>))>> }

(* IntentHash of the i-th input transaction                                 *)
IntentHashOf(i) == i

TransactionSets ==
    UNION { [1..n -> EntityLists] : n \in 0..MaxTxs }

-----------------------------------------------------------------------------
(* Sequence helpers                                                         *)

Range(s) == { s[i] : i \in DOMAIN s }

RECURSIVE Concat(_)
Concat(ss) == IF ss = <<>> THEN <<>> ELSE Head(ss) \o Concat(Tail(ss))

(* IndexSet::insert / from_iter: keeps the first occurrence                 *)
IndexSetInsert(s, x) == IF x \in Range(s) THEN s ELSE Append(s, x)

RECURSIVE IndexSetFromIter(_)
IndexSetFromIter(s) ==
    IF s = <<>> THEN <<>>
    ELSE LET rest == IndexSetFromIter(SubSeq(s, 1, Len(s) - 1))
         IN  IndexSetInsert(rest, s[Len(s)])

(* All iteration orders of a hashed collection (std HashSet / HashMap with   *)
(* RandomState: the order is not determined by the contents)                *)
IterationOrders(S) ==
    { p \in [1..Cardinality(S) -> S] : \A x \in S : \E i \in DOMAIN p : p[i] = x }

(* i8 view of a count or of a u8 (`as i8`)                                   *)
AsI8(n) == LET m == n % 256 IN IF m > 127 THEN m - 256 ELSE m

-----------------------------------------------------------------------------
(* redone_functional/sign_with_factors.rs: PetitionWithFactors               *)

PetitionWithFactorsInput(factors, required) ==
    [factors |-> factors, required |-> required, signed |-> {}, skipped |-> {}]

NewThreshold(factors, threshold) ==
    PetitionWithFactorsInput(IndexSetFromIter(factors), threshold)

NewOverride(factors) ==
    PetitionWithFactorsInput(IndexSetFromIter(factors), 1)

NewNotUsed == PetitionWithFactorsInput(<<>>, 0)

NewUnsecurifiedList(factor) == NewThreshold(<<factor>>, 1)

(* PetitionOfTransactionByEntity::new_securified / new_unsecurified         *)
NewSecurified(transaction_index, entity, matrix) ==
    [entity |-> entity, transaction_index |-> transaction_index,
     threshold_factors |-> NewThreshold(matrix.threshold_factors, AsI8(matrix.threshold)),
     override_factors |-> NewOverride(matrix.override_factors)]

NewUnsecurified(transaction_index, entity, instance) ==
    [entity |-> entity, transaction_index |-> transaction_index,
     threshold_factors |-> NewUnsecurifiedList(instance),
     override_factors |-> NewNotUsed]

NewEntityPetition(transaction_index, e) ==
    IF e.security_state.securified
    THEN NewSecurified(transaction_index, e.address, e.security_state)
    ELSE NewUnsecurified(transaction_index, e.address,
                         e.security_state.threshold_factors[1])

(* BTreeSet<PetitionOfTransactionByEntity>::insert.  The derived Ord compares*)
(* transaction_index only (entity and both lists are ignored), and insert    *)
(* keeps the element already present when an equal one is inserted.          *)
BTreeSetInsert(set, petition) ==
    IF \E i \in DOMAIN set : set[i].transaction_index = petition.transaction_index
    THEN set
    ELSE Append(set, petition)

RECURSIVE PetitionsForEntities(_, _)
PetitionsForEntities(transaction_index, entities) ==
    IF entities = <<>> THEN <<>>
    ELSE BTreeSetInsert(
             PetitionsForEntities(transaction_index,
                                  SubSeq(entities, 1, Len(entities) - 1)),
             NewEntityPetition(transaction_index, entities[Len(entities)]))

-----------------------------------------------------------------------------
(* PetitionWithFactorsInput / PetitionWithFactors: status of one factor list *)

SignedCount(p) == AsI8(Cardinality(p.signed))

SkippedCount(p) == AsI8(Cardinality(p.skipped))

PromptedCount(p) == SignedCount(p) + SkippedCount(p)

FactorsCount(p) == AsI8(Len(p.factors))

RemainingFactorsUntilSuccess(p) == p.required - SignedCount(p)

IsFulfilledBy(p) == RemainingFactorsUntilSuccess(p) <= 0

FactorsLeftToPrompt(p) == FactorsCount(p) - PromptedCount(p)

IsFailureWith(p) == FactorsLeftToPrompt(p) < p.required

(* PetitionWithFactors::finished_with / status                               *)
ListStatus(p) ==
    IF IsFulfilledBy(p) THEN "Success"
    ELSE IF IsFailureWith(p) THEN "Fail"
    ELSE "InProgress"

(* status() in which a failed list fails the entity                          *)
CombinedStatusFailDominates(threshold, override) ==
    CASE threshold = "Fail" \/ override = "Fail" -> "Fail"
      [] threshold = "InProgress" /\ override = "InProgress" -> "InProgress"
      [] OTHER -> "Success"

(* PetitionOfTransactionByEntity::status                                     *)
CombinedStatus(threshold, override) ==
    CASE threshold = "InProgress" /\ override = "InProgress" -> "InProgress"
      [] threshold = "Fail" /\ override = "InProgress" -> "InProgress"
      [] threshold = "InProgress" /\ override = "Fail" -> "InProgress"
      [] threshold = "Fail" /\ override = "Fail" -> "Fail"
      [] OTHER -> "Success"

EntityStatus(e) ==
    CombinedStatus(ListStatus(e.threshold_factors), ListStatus(e.override_factors))

-----------------------------------------------------------------------------
(* SignaturesBuilder::new (redone_functional/signatures_builder.rs)          *)

(* an entity loop that passes the threshold factors only                     *)
FactorIdsOfEntityThresholdOnly(e) == e.security_state.threshold_factors

(* the factor source ids an entity passes to use_factor_in_tx, in call order *)
FactorIdsOfEntity(e) ==
    IF e.security_state.securified
    THEN e.security_state.override_factors \o e.security_state.threshold_factors
    ELSE e.security_state.threshold_factors

FactorIdsOfTransaction(entities) ==
    Concat([i \in DOMAIN entities |-> FactorIdsOfEntity(entities[i])])

ReferencedIds(txs) ==
    UNION { Range(FactorIdsOfTransaction(txs[i])) : i \in DOMAIN txs }

(* the construction with the non-emptiness assertion of use_factor_in_tx     *)
(* made after the loop over the transactions instead of inside the closure  *)
AllReferencedConfiguredAndSomeUsed(profile, txs) ==
    ReferencedIds(txs) \subseteq DOMAIN profile /\ ReferencedIds(txs) # {}

(* use_factor_in_tx: `.expect("Should have all factor sources")`             *)
AllReferencedConfigured(profile, txs) == ReferencedIds(txs) \subseteq DOMAIN profile

(* factor_to_payloads after the loop over the transactions                   *)
FactorToPayloads(txs) ==
    [id \in ReferencedIds(txs) |->
        SelectSeq([i \in DOMAIN txs |-> IntentHashOf(i)],
                  LAMBDA t : id \in Range(FactorIdsOfTransaction(txs[t])))]

TxidToPetition(txs) ==
    [i \in DOMAIN txs |->
        [intent_hash |-> IntentHashOf(i),
         for_entities |-> PetitionsForEntities(i, txs[i])]]

(* impl Ord for FactorSource: kind, then last_used; the id is not compared   *)
FactorSourceGreater(profile, a, b) ==
    \/ profile[a].kind > profile[b].kind
    \/ /\ profile[a].kind = profile[b].kind
       /\ profile[a].last_used > profile[b].last_used

(* Itertools::sorted (a stable sort): x goes before the first greater element*)
InsertSorted(profile, sorted, x) ==
    LET greater == { i \in DOMAIN sorted : FactorSourceGreater(profile, sorted[i], x) }
        at == IF greater = {} THEN Len(sorted) + 1
              ELSE CHOOSE i \in greater : \A j \in greater : i <= j
    IN  SubSeq(sorted, 1, at - 1) \o <<x>> \o SubSeq(sorted, at, Len(sorted))

RECURSIVE Sorted(_, _)
Sorted(profile, s) ==
    IF s = <<>> THEN <<>>
    ELSE InsertSorted(profile, Sorted(profile, SubSeq(s, 1, Len(s) - 1)), s[Len(s)])

(* into_grouping_map_by(kind).collect::<IndexSet<_>>(), then sorted() per    *)
(* kind, in the iteration order kind_order of the grouping HashMap; order is *)
(* the iteration order of the HashSet used_factor_sources                    *)
GroupedAndSorted(profile, order, kind_order) ==
    [i \in DOMAIN kind_order |->
        [kind |-> kind_order[i],
         factor_sources |->
            Sorted(profile,
                   SelectSeq(order, LAMBDA id : profile[id].kind = kind_order[i]))]]

(* the IndexMap left in the order of its insertions                         *)
UnsortedKeys(m) == m

(* IndexMap::sort_keys                                                       *)
RECURSIVE SortKeys(_)
SortKeys(m) ==
    IF m = <<>> THEN <<>>
    ELSE LET least == CHOOSE i \in DOMAIN m : \A j \in DOMAIN m : m[i].kind <= m[j].kind
         IN  <<m[least]>> \o
             SortKeys(SubSeq(m, 1, least - 1) \o SubSeq(m, least + 1, Len(m)))

FactorsOfKind(profile, order, kind_order) ==
    SortKeys(GroupedAndSorted(profile, order, kind_order))

KindsOf(profile, ids) == { profile[id].kind : id \in ids }

(* SignaturesOutcome::new(MaybeSignedTransactions, MaybeSignedTransactions)  *)
SignaturesOutcome(successful, failed) ==
    [successful_transactions |-> successful, failed_transactions |-> failed]

EmptyMap == <<>>

NoPanic == "none"

(* the message of `todo!()`                                                  *)
Todo == "not yet implemented"

(* placeholder of `outcome` until sign() has returned (pc = "returned")       *)
NoOutcome == SignaturesOutcome(EmptyMap, EmptyMap)

-----------------------------------------------------------------------------
(* The inputs, before any coordinator is constructed                         *)

Inputs ==
    /\ all_factor_sources_in_profile \in Profiles
    /\ transactions \in TransactionSets
    /\ factors_of_kind = <<>>
    /\ factor_to_txid = <<>>
    /\ petitions = <<>>
    /\ outcome = NoOutcome
    /\ cursor = 0
    /\ builders_level_0 = <<>>
    /\ prompted_factor_sources = <<>>
    /\ failed_transactions = <<>>
    /\ history = <<>>

Init == Inputs /\ pc = "new" /\ panic = NoPanic

UnchangedInputs == UNCHANGED <<all_factor_sources_in_profile, transactions>>

UnchangedLevel0 ==
    UNCHANGED <<builders_level_0, prompted_factor_sources, failed_transactions>>

UnchangedRedone == UNCHANGED <<factor_to_txid, petitions, outcome>>

(* SignaturesBuilder::new *)
New ==
    /\ pc = "new"
    /\ UnchangedInputs /\ UnchangedLevel0
    /\ UNCHANGED <<outcome, cursor, history>>
    /\ IF ~AllReferencedConfigured(all_factor_sources_in_profile, transactions)
       THEN /\ pc' = "panicked"
            /\ panic' = "Should have all factor sources"
            /\ UNCHANGED <<factors_of_kind, factor_to_txid, petitions>>
       ELSE /\ pc' = "constructed"
            /\ panic' = panic
            /\ factor_to_txid' = FactorToPayloads(transactions)
            /\ petitions' = TxidToPetition(transactions)
            /\ \E order \in IterationOrders(ReferencedIds(transactions)) :
               \E kind_order \in IterationOrders(
                       KindsOf(all_factor_sources_in_profile,
                               ReferencedIds(transactions))) :
                   factors_of_kind' =
                       FactorsOfKind(all_factor_sources_in_profile, order, kind_order)

(* SigningDriversContext::driver_for_factor_source_kind                      *)
DriverForFactorSourceKind(kind) == IF kind = Device THEN "Parallel" ELSE "Serial"

(* SignaturesBuilder::sign entered: do_sign clones factors_of_kind and starts*)
(* its loop over the kinds                                                   *)
SignCalled ==
    /\ pc = "constructed"
    /\ pc' = "do_sign"
    /\ panic' = panic
    /\ cursor' = 1
    /\ UnchangedInputs /\ UnchangedLevel0 /\ UnchangedRedone
    /\ UNCHANGED <<factors_of_kind, history>>

(* do_sign, one kind handled by a Parallel driver: SigningDriver::sign is    *)
(* `todo!()` in that arm                                                     *)
DriverSignParallel ==
    /\ pc = "do_sign"
    /\ cursor \in DOMAIN factors_of_kind
    /\ DriverForFactorSourceKind(factors_of_kind[cursor].kind) = "Parallel"
    /\ history' = Append(history,
                         [call |-> "driver_sign", kind |-> factors_of_kind[cursor].kind,
                          factor_source |-> factors_of_kind[cursor].factor_sources[1]])
    /\ pc' = "panicked"
    /\ panic' = Todo
    /\ UnchangedInputs /\ UnchangedLevel0 /\ UnchangedRedone
    /\ UNCHANGED <<factors_of_kind, cursor>>

(* do_sign, one kind handled by a Serial driver: the loop over the kind's    *)
(* sources awaits SigningDriverSerial::sign_serial, which is `todo!()`, for  *)
(* the first source                                                          *)
DriverSignSerial ==
    /\ pc = "do_sign"
    /\ cursor \in DOMAIN factors_of_kind
    /\ DriverForFactorSourceKind(factors_of_kind[cursor].kind) = "Serial"
    /\ history' = Append(history,
                         [call |-> "driver_sign", kind |-> factors_of_kind[cursor].kind,
                          factor_source |-> factors_of_kind[cursor].factor_sources[1]])
    /\ pc' = "panicked"
    /\ panic' = Todo
    /\ UnchangedInputs /\ UnchangedLevel0 /\ UnchangedRedone
    /\ UNCHANGED <<factors_of_kind, cursor>>

(* the Outcome sign() builds once do_sign has returned Ok: two empty maps    *)
OutcomeOfSign(txid_to_petition) ==
    SignaturesOutcome(EmptyMap, EmptyMap)

(* do_sign has no kind left: sign() returns its Outcome                      *)
SignReturns ==
    /\ pc = "do_sign"
    /\ cursor > Len(factors_of_kind)
    /\ outcome' = OutcomeOfSign(petitions)
    /\ pc' = "returned"
    /\ panic' = panic
    /\ UnchangedInputs /\ UnchangedLevel0
    /\ UNCHANGED <<factors_of_kind, factor_to_txid, petitions, cursor, history>>

Next == New \/ SignCalled \/ DriverSignParallel \/ DriverSignSerial \/ SignReturns

Spec == Init /\ [][Next]_vars

-----------------------------------------------------------------------------
(* Claims about construction and sign() of SignaturesBuilder                 *)

Constructed == pc \in {"constructed", "do_sign", "returned"} \/ panic = Todo

ConstructionFailed ==
    /\ pc = "panicked"
    /\ panic = "Should have all factor sources"
    /\ petitions = <<>> /\ factor_to_txid = <<>> /\ factors_of_kind = <<>>
    /\ history = <<>>

PolicyReferencesUnconfigured ==
    \E i \in DOMAIN transactions : \E j \in DOMAIN transactions[i] :
        LET m == transactions[i][j].security_state
        IN  \E id \in Range(m.threshold_factors) \cup Range(m.override_factors) :
                id \notin DOMAIN all_factor_sources_in_profile

(* the signatures recorded for input entity e of transaction i that were made*)
(* by e's own declared factor instances                                      *)
SignedBy(i, e, list) ==
    UNION { { f \in (IF list = "threshold" THEN p.threshold_factors.signed
                     ELSE p.override_factors.signed) :
                f \in Range(IF list = "threshold"
                            THEN e.security_state.threshold_factors
                            ELSE e.security_state.override_factors) }
            : p \in { q \in Range(petitions[i].for_entities) : q.entity = e.address } }

EntityHasQuorum(i, e) ==
    \/ Cardinality(SignedBy(i, e, "threshold")) >= e.security_state.threshold
    \/ Cardinality(SignedBy(i, e, "override")) >= 1

(* C1: when sign() has returned, a transaction is in Outcome.successful if   *)
(* and only if every one of its entities has k signatures of its threshold   *)
(* list or one signature of its override list, by its own factor instances.  *)
C1_QuorumSoundness ==
    pc = "returned" =>
        \A i \in DOMAIN transactions :
            (IntentHashOf(i) \in DOMAIN outcome.successful_transactions)
            <=> (\A j \in DOMAIN transactions[i] :
                     EntityHasQuorum(i, transactions[i][j]))

TransactionSucceeded(i) ==
    \A p \in Range(petitions[i].for_entities) : EntityStatus(p) = "Success"

SignaturesOfTransaction(i) ==
    UNION { { [intent_hash |-> IntentHashOf(i), owner |-> p.entity, factor |-> f]
              : f \in p.threshold_factors.signed \cup p.override_factors.signed }
            : p \in Range(petitions[i].for_entities) }

(* C2: when sign() has returned, every input transaction is in exactly one of*)
(* Outcome.successful and Outcome.failed: in successful, with the signatures *)
(* of its petitions, when its status is Success, and otherwise in failed,    *)
(* with exactly the entities whose status is not Success.                    *)
C2_OutcomePartition ==
    pc = "returned" =>
        \A i \in DOMAIN transactions :
            LET t == IntentHashOf(i)
                in_successful == t \in DOMAIN outcome.successful_transactions
                in_failed == t \in DOMAIN outcome.failed_transactions
            IN  /\ in_successful # in_failed
                /\ TransactionSucceeded(i) =>
                       /\ in_successful
                       /\ outcome.successful_transactions[t] = SignaturesOfTransaction(i)
                /\ ~TransactionSucceeded(i) =>
                       /\ in_failed
                       /\ outcome.failed_transactions[t] =
                              { p.entity : p \in { q \in Range(petitions[i].for_entities) :
                                                       EntityStatus(q) # "Success" } }

(* C7: construction fails (no coordinator, nothing signed) exactly when some *)
(* entity's policy references a factor source id that is not configured, and *)
(* yields a coordinator when every referenced id is configured.  The failure *)
(* is the panic "Should have all factor sources" of use_factor_in_tx.        *)
C7_ConstructionFailsIffUnconfigured ==
    pc # "new" =>
        /\ PolicyReferencesUnconfigured => ConstructionFailed
        /\ ~PolicyReferencesUnconfigured =>
               /\ Constructed
               /\ DOMAIN petitions = DOMAIN transactions

C7_Witness ==
    ConstructionFailed /\ PolicyReferencesUnconfigured /\ Len(transactions) = 2

(* C8: construction with an empty set of transactions fails with the error   *)
(* EmptyTransactionSet; no coordinator with empty petitions is ever created. *)
C8_EmptyTransactionSetRejected ==
    (pc # "new" /\ transactions = <<>>) => (~Constructed /\ pc = "panicked")

(* C9: the constructor rejects a securified policy that has a factor source  *)
(* id in both lists, so in every constructed entity petition an id is in at  *)
(* most one of the threshold list and the override list.                     *)
C9_SourceInAtMostOneList ==
    /\ (pc # "new" /\ \E i \in DOMAIN transactions : \E j \in DOMAIN transactions[i] :
            LET m == transactions[i][j].security_state
            IN  m.securified /\ Range(m.threshold_factors) \cap Range(m.override_factors) # {})
       => ~Constructed
    /\ \A i \in DOMAIN petitions : \A p \in Range(petitions[i].for_entities) :
           Range(p.threshold_factors.factors) \cap Range(p.override_factors.factors) = {}

-----------------------------------------------------------------------------
(* Recording on the petitions of a constructed coordinator                   *)
(* (redone_functional/sign_with_factors.rs)                                  *)

MaxCalls == 3

(* PetitionOfTransactionByEntity::petition: the threshold list is looked at  *)
(* first                                                                     *)
Petition(e, id) ==
    IF id \in Range(e.threshold_factors.factors) THEN "Threshold"
    ELSE IF id \in Range(e.override_factors.factors) THEN "Override"
    ELSE "None"

(* PetitionWithFactorsState::references_factor_source_by_id                  *)
ReferencesFactorSourceById(p, id) == id \in p.signed \cup p.skipped

(* the condition asserted by assert_not_referencing_factor_source, as coded: *)
(* `assert!(self.references_factor_source_by_id(factor_source_id), ...)`     *)
AssertNotReferencingFactorSource(p, id) == ReferencesFactorSourceById(p, id)

AlreadyUsed ==
    "Programmer error! Factor source already used, should only be referenced once."

ListOf(e, which) ==
    IF which = "Threshold" THEN e.threshold_factors ELSE e.override_factors

WithList(e, which, p) ==
    IF which = "Threshold" THEN [e EXCEPT !.threshold_factors = p]
    ELSE [e EXCEPT !.override_factors = p]

Recorded(call, i, id, before, after) ==
    [call |-> call, transaction_index |-> i, factor_source |-> id,
     before |-> ListStatus(before), after |-> ListStatus(after)]

(* PetitionOfTransactionByEntity::skipped -> PetitionWithFactors::skipped -> *)
(* PetitionWithFactorsState::skipped                                         *)
Skipped ==
    /\ pc = "constructed"
    /\ Len(history) < MaxCalls
    /\ \E i \in DOMAIN petitions : \E j \in DOMAIN petitions[i].for_entities :
       \E id \in ConfiguredIds :
         LET e == petitions[i].for_entities[j]
             which == Petition(e, id)
             p == ListOf(e, which)
             q == [p EXCEPT !.skipped = @ \cup {id}]
         IN  IF which = "None"
             THEN UNCHANGED <<pc, panic, petitions, history>>
             ELSE IF ~AssertNotReferencingFactorSource(p, id)
             THEN /\ pc' = "panicked"
                  /\ panic' = AlreadyUsed
                  /\ history' = Append(history, Recorded("skipped panicked", i, id, p, p))
                  /\ UNCHANGED petitions
             ELSE /\ petitions' =
                         [petitions EXCEPT ![i].for_entities[j] = WithList(e, which, q)]
                  /\ history' = Append(history, Recorded("skipped", i, id, p, q))
                  /\ UNCHANGED <<pc, panic>>
    /\ UnchangedInputs /\ UnchangedLevel0
    /\ UNCHANGED <<factors_of_kind, factor_to_txid, outcome, cursor>>

(* record_signature of an entity petition: forwards to the list that         *)
(* references the source, no-op when none does; the source must not yet be   *)
(* recorded on either side of that list (fatal otherwise)                    *)
RecordSignature ==
    /\ pc = "constructed"
    /\ Len(history) < MaxCalls
    /\ \E i \in DOMAIN petitions : \E j \in DOMAIN petitions[i].for_entities :
       \E id \in ConfiguredIds :
         LET e == petitions[i].for_entities[j]
             which == Petition(e, id)
             p == ListOf(e, which)
             q == [p EXCEPT !.signed = @ \cup {id}]
         IN  IF which = "None"
             THEN UNCHANGED <<pc, panic, petitions, history>>
             ELSE IF ReferencesFactorSourceById(p, id)
             THEN /\ pc' = "panicked"
                  /\ panic' = AlreadyUsed
                  /\ UNCHANGED <<petitions, history>>
             ELSE /\ petitions' =
                         [petitions EXCEPT ![i].for_entities[j] = WithList(e, which, q)]
                  /\ history' = Append(history, Recorded("record_signature", i, id, p, q))
                  /\ UNCHANGED <<pc, panic>>
    /\ UnchangedInputs /\ UnchangedLevel0
    /\ UNCHANGED <<factors_of_kind, factor_to_txid, outcome, cursor>>

(* the queries of one run (a query changes nothing a later one could see)    *)
MaxQueries == 1

(* the call has ended in the panic of the assertion                          *)
Panicked == "panicked"

Simulated(i, id, status, lists_before, lists_after) ==
    [call |-> "status_if_skipped_factor_source", transaction_index |-> i,
     factor_source |-> id, status |-> status,
     lists_before |-> lists_before, lists_after |-> lists_after]

ListsOf(e) == <<e.threshold_factors, e.override_factors>>

(* PetitionOfTransactionByEntity::status_if_skipped_factor_source: `skipped` *)
(* on a clone (the derived Clone copies the contents of every RefCell), then *)
(* status() of the clone                                                     *)
StatusIfSkippedFactorSource ==
    /\ pc = "constructed"
    /\ Len(history) < MaxCalls
    /\ Cardinality({ n \in DOMAIN history :
                         history[n].call = "status_if_skipped_factor_source" })
           < MaxQueries
    /\ \E i \in DOMAIN petitions : \E j \in DOMAIN petitions[i].for_entities :
       \E id \in ConfiguredIds :
         LET e == petitions[i].for_entities[j]
             which == Petition(e, id)
             p == ListOf(e, which)
             q == [p EXCEPT !.skipped = @ \cup {id}]
             simulation == IF which = "None" THEN e ELSE WithList(e, which, q)
         IN  IF which # "None" /\ ~AssertNotReferencingFactorSource(p, id)
             THEN /\ pc' = "panicked"
                  /\ panic' = AlreadyUsed
                  /\ history' = Append(history,
                                       Simulated(i, id, Panicked, ListsOf(e), ListsOf(e)))
             ELSE /\ history' = Append(history,
                                       Simulated(i, id, EntityStatus(simulation),
                                                 ListsOf(e), ListsOf(e)))
                  /\ UNCHANGED <<pc, panic>>
    /\ petitions' = petitions
    /\ UnchangedInputs /\ UnchangedLevel0
    /\ UNCHANGED <<factors_of_kind, factor_to_txid, outcome, cursor>>

NextPetitions == New \/ Skipped \/ RecordSignature \/ StatusIfSkippedFactorSource

SpecPetitions == Init /\ [][NextPetitions]_vars

(* C4: over any sequence of record_signature and record_skip calls, the      *)
(* status of a factor-list petition changes only from InProgress to Success  *)
(* or from InProgress to Fail; a status of Success or Fail never changes.    *)
C4_MonotonicStatus ==
    \A n \in DOMAIN history :
        history[n].call \in {"skipped", "record_signature"} =>
            (history[n].before # history[n].after => history[n].before = "InProgress")

-----------------------------------------------------------------------------
(* SignaturesBuilderLevel2 (signatures_builder_level2.rs): one entity of one *)
(* transaction                                                               *)

(* SignaturesBuilderLevel2::new / new_unsecurified / new_securified          *)
NewLevel2(address_of_owner, matrix) ==
    [address_of_owner |-> address_of_owner,
     threshold_factors |-> matrix.threshold_factors,
     threshold |-> matrix.threshold,
     override_factors |-> matrix.override_factors,
     skipped_factor_source_ids |-> <<>>,
     signatures |-> <<>>,
     status |-> "Building"]

OwnedFactorInstance(factor_source_id, owner) ==
    [factor_source_id |-> factor_source_id, owner |-> owner]

(* the Signature itself is a unit struct: one value                          *)
SignatureByOwnedFactorForPayload(intent_hash, owned_factor_instance) ==
    [intent_hash |-> intent_hash, owned_factor_instance |-> owned_factor_instance]

AllThresholdFactorSourceIds(b) == Range(b.threshold_factors)

AllOverrideFactorSourceIds(b) == Range(b.override_factors)

IsOverrideFactor(b, id) == id \in AllOverrideFactorSourceIds(b)

IsThresholdFactor(b, id) == id \in AllThresholdFactorSourceIds(b)

SignedOverrideFactors(b) ==
    { sig \in Range(b.signatures) :
          sig.owned_factor_instance.factor_source_id \in AllOverrideFactorSourceIds(b) }

SignedThresholdFactors(b) ==
    { sig \in Range(b.signatures) :
          sig.owned_factor_instance.factor_source_id \in AllThresholdFactorSourceIds(b) }

IdsOfFactorSourcesSignedWith(b) ==
    { sig.owned_factor_instance.factor_source_id : sig \in Range(b.signatures) }

IdsOfSignedThresholdFactorSources(b) ==
    IdsOfFactorSourcesSignedWith(b) \cap AllThresholdFactorSourceIds(b)

IdsOfRemainingThresholdFactors(b) ==
    AllThresholdFactorSourceIds(b) \
        ((Range(b.skipped_factor_source_ids) \cap AllThresholdFactorSourceIds(b))
         \cup IdsOfSignedThresholdFactorSources(b))

IdsOfRemainingOverrideFactors(b) ==
    AllOverrideFactorSourceIds(b) \
        ((Range(b.skipped_factor_source_ids) \cap AllOverrideFactorSourceIds(b))
         \cup (IdsOfFactorSourcesSignedWith(b) \cap AllOverrideFactorSourceIds(b)))

FulfilledThanksToOverrideFactors(b) == SignedOverrideFactors(b) # {}

FulfilledThanksToThresholdFactors(b) ==
    IF b.threshold = 0 THEN FALSE
    ELSE Cardinality(SignedThresholdFactors(b)) >= b.threshold

HasFulfilledSignaturesRequirement(b) ==
    FulfilledThanksToOverrideFactors(b) \/ FulfilledThanksToThresholdFactors(b)

IsUnableToCompleteUsingOverrideFactors(b) ==
    IdsOfRemainingOverrideFactors(b) = {} /\ SignedOverrideFactors(b) = {}

IsUnableToCompleteUsingThresholdFactors(b) ==
    IF FulfilledThanksToThresholdFactors(b) THEN FALSE
    ELSE Cardinality(IdsOfRemainingThresholdFactors(b))
             < b.threshold - Cardinality(IdsOfSignedThresholdFactorSources(b))

IsInvalidOverrideOnly(b) == IsUnableToCompleteUsingOverrideFactors(b)

IsInvalid(b) ==
    IsUnableToCompleteUsingOverrideFactors(b) /\ IsUnableToCompleteUsingThresholdFactors(b)

CalculateStatus(b) ==
    IF HasFulfilledSignaturesRequirement(b) THEN "Signed"
    ELSE IF IsInvalid(b) THEN "Invalid"
    ELSE "Building"

ValidTransition(current, new) ==
    <<current, new>> \in
        { <<"Building", "Signed">>, <<"Building", "Invalid">>, <<"Signed", "Signed">> }

InvalidStatusTransition == "Invalid status transition"

(* update_status: the builder after it and the panic it ended in, if any     *)
UpdateStatus(b) ==
    LET new == CalculateStatus(b)
    IN  IF ValidTransition(b.status, new)
        THEN [builder |-> [b EXCEPT !.status = new], panic |-> NoPanic]
        ELSE [builder |-> b, panic |-> InvalidStatusTransition]

CannotSkipTwice == "Cannot skipped twice. This is a programmer error"

MustBeInEither ==
    "MUST be in either overrideFactors OR in thresholdFactors (and was not in overrideFactors...)"

(* skip_status with `delta >= 0` in the threshold branch                      *)
SkipStatusDeltaNotNegative(b, id) ==
    IF id \in Range(b.skipped_factor_source_ids) THEN CannotSkipTwice
    ELSE IF b.status = "Invalid" THEN "InvalidNoNeedToSign"
    ELSE IF b.status = "Signed" THEN "SignedNoNeedToSign"
    ELSE IF IsOverrideFactor(b, id)
         THEN IF Cardinality(IdsOfRemainingOverrideFactors(b)) > 1
              THEN "StillBuildingCanSkip"
              ELSE "StillBuildingWillFailIfSkip"
    ELSE IF IsThresholdFactor(b, id)
         THEN IF Cardinality(IdsOfRemainingThresholdFactors(b))
                     - (b.threshold - Cardinality(IdsOfSignedThresholdFactorSources(b))) >= 0
              THEN "StillBuildingCanSkip"
              ELSE "StillBuildingWillFailIfSkip"
    ELSE MustBeInEither

(* SignaturesBuilderLevel2::skip_status; the two panics are returned as the  *)
(* result                                                                    *)
SkipStatus(b, id) ==
    IF id \in Range(b.skipped_factor_source_ids) THEN CannotSkipTwice
    ELSE IF b.status = "Invalid" THEN "InvalidNoNeedToSign"
    ELSE IF b.status = "Signed" THEN "SignedNoNeedToSign"
    ELSE IF IsOverrideFactor(b, id)
         THEN IF Cardinality(IdsOfRemainingOverrideFactors(b)) > 1
              THEN "StillBuildingCanSkip"
              ELSE "StillBuildingWillFailIfSkip"
    ELSE IF IsThresholdFactor(b, id)
         THEN IF Cardinality(IdsOfRemainingThresholdFactors(b))
                     - (b.threshold - Cardinality(IdsOfSignedThresholdFactorSources(b))) > 0
              THEN "StillBuildingCanSkip"
              ELSE "StillBuildingWillFailIfSkip"
    ELSE MustBeInEither

SkipStatusPanics(b, id) == SkipStatus(b, id) \in {CannotSkipTwice, MustBeInEither}

(* SignaturesBuilderLevel2::skip_factor_sources                              *)
SkipFactorSourcesLevel2(b, id) ==
    LET skip_status == SkipStatus(b, id)
    IN  IF SkipStatusPanics(b, id) THEN [builder |-> b, panic |-> skip_status]
        ELSE IF skip_status # "StillBuildingCanSkip"
        THEN [builder |-> b,
              panic |-> "Should not have skipped a factor source with SkipFactorStatus::"
                        \o skip_status \o "."]
        ELSE UpdateStatus([b EXCEPT !.skipped_factor_source_ids = Append(@, id)])

(* a delivered signature is appended whatever the builder already holds      *)
SignatureNeverPresent(b, signature) == FALSE

(* `self.signatures.borrow().contains(&signature)`                           *)
SignatureAlreadyPresent(b, signature) == signature \in Range(b.signatures)

OwnerMismatch == "assertion left == right failed"

AlreadyContained == "assertion failed: !self.signatures.borrow().contains(&signature)"

(* append_signature that drops a signature it already holds                  *)
AppendSignatureIdempotent(b, signature) ==
    IF signature.owned_factor_instance.owner # b.address_of_owner
    THEN [builder |-> b, panic |-> OwnerMismatch]
    ELSE IF SignatureAlreadyPresent(b, signature)
    THEN [builder |-> b, panic |-> NoPanic]
    ELSE UpdateStatus([b EXCEPT !.signatures = Append(@, signature)])

(* SignaturesBuilderLevel2::append_signature                                 *)
AppendSignatureLevel2(b, signature) ==
    IF signature.owned_factor_instance.owner # b.address_of_owner
    THEN [builder |-> b, panic |-> OwnerMismatch]
    ELSE IF SignatureAlreadyPresent(b, signature)
    THEN [builder |-> b, panic |-> AlreadyContained]
    ELSE UpdateStatus([b EXCEPT !.signatures = Append(@, signature)])

MustBeEither == "MUST be either threshold or override"

(* owned_instance_of_factor_source panics for a source the entity lacks      *)
OwnsInstanceOfFactorSource(b, id) == IsOverrideFactor(b, id) \/ IsThresholdFactor(b, id)

-----------------------------------------------------------------------------
(* SignaturesBuilderLevel1 (signatures_builder_level1.rs): one transaction,  *)
(* a HashMap from the address of an entity to its Level2 builder             *)

UnwrapNone == "called Option::unwrap() on a None value"

(* the HashMap builders_level_2 of SignaturesBuilderLevel0::new: a later     *)
(* entity with the same address replaces the earlier one                     *)
BuildersLevel2(entities) ==
    [a \in { entities[j].address : j \in DOMAIN entities } |->
        LET last == CHOOSE j \in DOMAIN entities :
                        /\ entities[j].address = a
                        /\ \A k \in DOMAIN entities : entities[k].address = a => k <= j
        IN  NewLevel2(a, entities[last].security_state)]

(* SignaturesBuilderLevel1::owned_instances_of_factor_source asks every      *)
(* builder of the transaction                                                *)
OwnedInstancesPanics(builders, id) ==
    \E a \in DOMAIN builders : ~OwnsInstanceOfFactorSource(builders[a], id)

(* SignaturesBuilderLevel1::skip_status asks every builder of the            *)
(* transaction; the entities reported are those that would fail if skipped   *)
SkipStatusPanicsLevel1(builders, id) ==
    { SkipStatus(builders[a], id) :
          a \in { x \in DOMAIN builders : SkipStatusPanics(builders[x], id) } }

EntitiesWhichWouldFailAuth(builders, id) ==
    { a \in DOMAIN builders : SkipStatus(builders[a], id) = "StillBuildingWillFailIfSkip" }

InvalidIfSkipLevel1(intent_hash, builders, id) ==
    IF EntitiesWhichWouldFailAuth(builders, id) = {} THEN {}
    ELSE { [intent_hash |-> intent_hash,
            entities_which_would_fail_auth |-> EntitiesWhichWouldFailAuth(builders, id)] }

(* SignaturesBuilderLevel1::append_signature: get_mut(owner).unwrap()        *)
AppendSignatureLevel1(builders, signature) ==
    LET owner == signature.owned_factor_instance.owner
    IN  IF owner \notin DOMAIN builders
        THEN [builders |-> builders, panic |-> UnwrapNone]
        ELSE LET r == AppendSignatureLevel2(builders[owner], signature)
             IN  [builders |-> [builders EXCEPT ![owner] = r.builder], panic |-> r.panic]

(* SignaturesBuilderLevel1::skip_factor_sources: every builder, in the       *)
(* iteration order `order` of the HashMap, up to the first panic             *)
RECURSIVE SkipFactorSourcesLevel1(_, _, _)
SkipFactorSourcesLevel1(builders, order, id) ==
    IF order = <<>> THEN [builders |-> builders, panic |-> NoPanic]
    ELSE LET r == SkipFactorSourcesLevel2(builders[Head(order)], id)
             after == [builders EXCEPT ![Head(order)] = r.builder]
         IN  IF r.panic # NoPanic THEN [builders |-> after, panic |-> r.panic]
             ELSE SkipFactorSourcesLevel1(after, Tail(order), id)

-----------------------------------------------------------------------------
(* SignaturesBuilderLevel0 (signatures_builder_level0.rs)                    *)

MaxConstructions == 2

MaxDeliveries == 2

(* the factor sources in the order do_sign visits them: kind by kind         *)
PromptOrder(fok) == Concat([k \in DOMAIN fok |-> fok[k].factor_sources])

(* one iteration order for the HashMap of every transaction                  *)
AddressOrders(b0) ==
    { f \in [DOMAIN b0 -> UNION { IterationOrders(DOMAIN b0[i]) : i \in DOMAIN b0 }] :
          \A i \in DOMAIN b0 : f[i] \in IterationOrders(DOMAIN b0[i]) }

(* invalid_if_skip_factor_source: the panics some builder of the first       *)
(* panicking transaction may end it with, and the report otherwise           *)
InvalidIfSkipPanics(b0, tx_ids, id) ==
    LET panicking == { k \in DOMAIN tx_ids :
                           SkipStatusPanicsLevel1(b0[tx_ids[k]], id) # {} }
    IN  IF panicking = {} THEN {}
        ELSE SkipStatusPanicsLevel1(
                 b0[tx_ids[CHOOSE k \in panicking : \A m \in panicking : k <= m]], id)

InvalidIfSkipFactorSource(b0, tx_ids, id) ==
    UNION { InvalidIfSkipLevel1(tx_ids[k], b0[tx_ids[k]], id) : k \in DOMAIN tx_ids }

(* SignaturesBuilderLevel0::skip_factor_sources: the transactions of the     *)
(* source in order, up to the first panic                                    *)
RECURSIVE SkipFactorSourcesLevel0(_, _, _, _)
SkipFactorSourcesLevel0(b0, tx_ids, orders, id) ==
    IF tx_ids = <<>> THEN [builders |-> b0, panic |-> NoPanic]
    ELSE LET t == Head(tx_ids)
             r == SkipFactorSourcesLevel1(b0[t], orders[t], id)
             after == [b0 EXCEPT ![t] = r.builders]
         IN  IF r.panic # NoPanic THEN [builders |-> after, panic |-> r.panic]
             ELSE SkipFactorSourcesLevel0(after, Tail(tx_ids), orders, id)

(* SignaturesBuilderLevel0::append_signature: get_mut(intent_hash).unwrap()  *)
AppendSignatureLevel0(b0, signature) ==
    IF signature.intent_hash \notin DOMAIN b0
    THEN [builders |-> b0, panic |-> UnwrapNone]
    ELSE LET r == AppendSignatureLevel1(b0[signature.intent_hash], signature)
         IN  [builders |-> [b0 EXCEPT ![signature.intent_hash] = r.builders],
              panic |-> r.panic]

RECURSIVE AppendAll(_, _)
AppendAll(b0, signatures) ==
    IF signatures = <<>> THEN [builders |-> b0, panic |-> NoPanic]
    ELSE LET r == AppendSignatureLevel0(b0, Head(signatures))
         IN  IF r.panic # NoPanic THEN r
             ELSE AppendAll(r.builders, Tail(signatures))

(* FactorSource::batch_sign of the owned instances of one transaction, in    *)
(* the iteration order of its builders                                       *)
BatchSign(intent_hash, order, id) ==
    [j \in DOMAIN order |->
        SignatureByOwnedFactorForPayload(intent_hash,
                                         OwnedFactorInstance(id, order[j]))]

(* SignaturesBuilderLevel0::sign_with: collect the signatures of every       *)
(* transaction of the source into an IndexSet, then append each              *)
SignWith(b0, tx_ids, orders, id) ==
    IF \E k \in DOMAIN tx_ids : OwnedInstancesPanics(b0[tx_ids[k]], id)
    THEN [builders |-> b0, panic |-> MustBeEither]
    ELSE AppendAll(b0,
                   IndexSetFromIter(
                       Concat([k \in DOMAIN tx_ids |->
                                  BatchSign(tx_ids[k], orders[tx_ids[k]], id)])))

(* failed_transactions after the loop over invalid_txs_if_skipped            *)
ExtendFailed(failed, invalid) ==
    [t \in DOMAIN failed \cup { r.intent_hash : r \in invalid } |->
        (IF t \in DOMAIN failed THEN failed[t] ELSE {})
        \cup UNION { r.entities_which_would_fail_auth :
                         r \in { x \in invalid : x.intent_hash = t } }]

(* SignaturesBuilderLevel0::signatures, an IndexSet collected from two hashed*)
(* maps: the set of its elements                                             *)
SignaturesLevel0(b0) ==
    UNION { UNION { Range(b0[i][a].signatures) : a \in DOMAIN b0[i] } : i \in DOMAIN b0 }

SigningOutcomeNobodyPrompted(all_signatures, prompted) ==
    [all_signatures |-> all_signatures, prompted_factor_sources |-> <<>>]

SigningOutcome(all_signatures, prompted) ==
    [all_signatures |-> all_signatures, prompted_factor_sources |-> prompted]

Constructions == Cardinality({ n \in DOMAIN history : history[n].call = "new" })

Deliveries == Cardinality({ n \in DOMAIN history : history[n].call = "append_signature" })

(* SignaturesBuilderLevel0::new                                              *)
ConstructLevel0 ==
    /\ UnchangedInputs
    /\ UNCHANGED <<petitions, outcome, cursor>>
    /\ IF ~AllReferencedConfigured(all_factor_sources_in_profile, transactions)
       THEN /\ pc' = "panicked"
            /\ panic' = "Should have all factor sources"
            /\ UNCHANGED <<factors_of_kind, factor_to_txid, builders_level_0,
                           prompted_factor_sources, failed_transactions, history>>
       ELSE /\ pc' = "constructed"
            /\ panic' = panic
            /\ factor_to_txid' = FactorToPayloads(transactions)
            /\ builders_level_0' =
                   [i \in DOMAIN transactions |-> BuildersLevel2(transactions[i])]
            /\ prompted_factor_sources' = <<>>
            /\ failed_transactions' = <<>>
            /\ \E order \in IterationOrders(ReferencedIds(transactions)) :
               \E kind_order \in IterationOrders(
                       KindsOf(all_factor_sources_in_profile,
                               ReferencedIds(transactions))) :
                   LET fok == FactorsOfKind(all_factor_sources_in_profile,
                                            order, kind_order)
                   IN  /\ factors_of_kind' = fok
                       /\ history' = Append(history,
                                            [call |-> "new", factors_of_kind |-> fok])

NewLevel0 == pc = "new" /\ ConstructLevel0

(* SignaturesBuilderLevel0::new called again with the same inputs, before    *)
(* the coordinator made by the earlier call is used                          *)
NewLevel0Again ==
    /\ pc = "constructed"
    /\ \A n \in DOMAIN history : history[n].call = "new"
    /\ Constructions < MaxConstructions
    /\ ConstructLevel0

(* IsSignaturesBuilder::append_signature called on the coordinator with the  *)
(* signature of an owned factor instance of a transaction, recorded or not   *)
AppendSignature ==
    /\ pc = "constructed"
    /\ Deliveries < MaxDeliveries
    /\ \E i \in DOMAIN builders_level_0 : \E owner \in DOMAIN builders_level_0[i] :
       \E id \in AllOverrideFactorSourceIds(builders_level_0[i][owner])
                  \cup AllThresholdFactorSourceIds(builders_level_0[i][owner]) :
         LET signature == SignatureByOwnedFactorForPayload(
                              IntentHashOf(i), OwnedFactorInstance(id, owner))
             r == AppendSignatureLevel0(builders_level_0, signature)
         IN  /\ builders_level_0' = r.builders
             /\ history' = Append(history,
                    [call |-> "append_signature", signature |-> signature,
                     replay |-> signature \in SignaturesLevel0(builders_level_0),
                     panic |-> r.panic,
                     unchanged |-> r.builders = builders_level_0])
             /\ panic' = r.panic
             /\ pc' = IF r.panic = NoPanic THEN pc ELSE "panicked"
    /\ UnchangedInputs /\ UnchangedRedone
    /\ UNCHANGED <<factors_of_kind, cursor, prompted_factor_sources, failed_transactions>>

(* IsSignaturesBuilder::skip_factor_sources called on the coordinator        *)
SkipFactorSources ==
    /\ pc = "constructed"
    /\ \E id \in DOMAIN factor_to_txid : \E orders \in AddressOrders(builders_level_0) :
         LET r == IF id \notin DOMAIN factor_to_txid
                  THEN [builders |-> builders_level_0, panic |-> UnwrapNone]
                  ELSE SkipFactorSourcesLevel0(builders_level_0, factor_to_txid[id],
                                               orders, id)
         IN  /\ builders_level_0' = r.builders
             /\ history' = Append(history,
                    [call |-> "skip_factor_sources", factor_source |-> id,
                     panic |-> r.panic])
             /\ panic' = r.panic
             /\ pc' = IF r.panic = NoPanic THEN pc ELSE "panicked"
    /\ UnchangedInputs /\ UnchangedRedone
    /\ UNCHANGED <<factors_of_kind, cursor, prompted_factor_sources, failed_transactions>>

Prompted(call, id) ==
    [call |-> call, factor_source |-> id,
     kind |-> all_factor_sources_in_profile[id].kind,
     last_used |-> all_factor_sources_in_profile[id].last_used]

(* IsSigningUser::sign_or_skip: the call with its arguments and the answer   *)
(* of the user                                                               *)
SignOrSkip(id, invalid_tx_if_skipped, is_skipping) ==
    [call |-> "sign_or_skip", factor_source |-> id,
     kind |-> all_factor_sources_in_profile[id].kind,
     last_used |-> all_factor_sources_in_profile[id].last_used,
     invalid_tx_if_skipped |-> invalid_tx_if_skipped,
     input |-> IF is_skipping THEN "Skip" ELSE "Sign"]

(* one iteration of the loops of SignaturesBuilderLevel0::do_sign, the user  *)
(* answering Skip (is_skipping) or Sign                                      *)
DoSignIteration ==
    /\ pc = "do_sign"
    /\ cursor \in DOMAIN PromptOrder(factors_of_kind)
    /\ LET id == PromptOrder(factors_of_kind)[cursor]
           tx_ids == factor_to_txid[id]
           panics == InvalidIfSkipPanics(builders_level_0, tx_ids, id)
           invalid_txs_if_skipped ==
               InvalidIfSkipFactorSource(builders_level_0, tx_ids, id)
       IN  /\ prompted_factor_sources' = IndexSetInsert(prompted_factor_sources, id)
           /\ IF panics # {}
              THEN /\ pc' = "panicked"
                   /\ panic' \in panics
                   /\ UNCHANGED <<builders_level_0, failed_transactions, history, cursor>>
              ELSE \E is_skipping \in BOOLEAN :
                   \E orders \in AddressOrders(builders_level_0) :
                     LET r == IF is_skipping
                              THEN SkipFactorSourcesLevel0(builders_level_0, tx_ids,
                                                           orders, id)
                              ELSE SignWith(builders_level_0, tx_ids, orders, id)
                     IN  /\ builders_level_0' = r.builders
                         /\ history' =
                                IF is_skipping \/ r.panic = MustBeEither
                                THEN Append(history,
                                            SignOrSkip(id, invalid_txs_if_skipped,
                                                       is_skipping))
                                ELSE history \o <<SignOrSkip(id, invalid_txs_if_skipped,
                                                             is_skipping),
                                                  Prompted("batch_sign", id)>>
                         /\ panic' = r.panic
                         /\ IF r.panic # NoPanic
                            THEN /\ pc' = "panicked"
                                 /\ UNCHANGED <<failed_transactions, cursor>>
                            ELSE /\ pc' = pc
                                 /\ cursor' = cursor + 1
                                 /\ failed_transactions' =
                                        IF is_skipping
                                        THEN ExtendFailed(failed_transactions,
                                                          invalid_txs_if_skipped)
                                        ELSE failed_transactions
    /\ UnchangedInputs /\ UnchangedRedone
    /\ UNCHANGED factors_of_kind

(* SignaturesBuilderLevel0::sign returns once do_sign has visited every      *)
(* factor source                                                             *)
SignReturnsLevel0 ==
    /\ pc = "do_sign"
    /\ cursor > Len(PromptOrder(factors_of_kind))
    /\ outcome' = SigningOutcome(SignaturesLevel0(builders_level_0),
                                 prompted_factor_sources)
    /\ pc' = "returned"
    /\ panic' = panic
    /\ UnchangedInputs /\ UnchangedLevel0
    /\ UNCHANGED <<factors_of_kind, factor_to_txid, petitions, cursor, history>>

(* sign() of a coordinator, which may be constructed more than once          *)
NextL0 ==
    \/ NewLevel0
    \/ NewLevel0Again
    \/ SignCalled
    \/ DoSignIteration
    \/ SignReturnsLevel0

SpecL0 == Init /\ [][NextL0]_vars

(* signatures and skips delivered to a coordinator, then sign()              *)
NextBuilder ==
    \/ NewLevel0
    \/ AppendSignature
    \/ SkipFactorSources
    \/ SignCalled
    \/ DoSignIteration
    \/ SignReturnsLevel0

SpecBuilder == Init /\ [][NextBuilder]_vars

-----------------------------------------------------------------------------
(* Claims about SignaturesBuilderLevel0/1/2                                  *)

SameIntentAndInstance(s, t) ==
    /\ s.intent_hash = t.intent_hash
    /\ s.owned_factor_instance = t.owned_factor_instance

(* C3: after any sequence of deliveries, prompts and signings, no builder    *)
(* holds two signatures for the same (intent hash, owned factor instance),   *)
(* and neither does the outcome sign() returns.                              *)
C3_AtMostOnce ==
    /\ \A i \in DOMAIN builders_level_0 : \A a \in DOMAIN builders_level_0[i] :
           LET signatures == builders_level_0[i][a].signatures
           IN  \A m, n \in DOMAIN signatures :
                   SameIntentAndInstance(signatures[m], signatures[n]) => m = n
    /\ pc = "returned" =>
           /\ outcome.all_signatures = SignaturesLevel0(builders_level_0)
           /\ \A s, t \in outcome.all_signatures : SameIntentAndInstance(s, t) => s = t

C3_Witness ==
    /\ pc = "returned"
    /\ Cardinality(outcome.all_signatures) >= 2

(* the prompts of the user and the signing calls of sign(), in order         *)
Prompts ==
    SelectSeq(history, LAMBDA h : h.call \in {"sign_or_skip", "batch_sign"})

ClaimedKindOrder == <<Ledger, Arculus, SecurityQuestions, OffDeviceMnemonic, Device>>

PlaceOfKind(kind) == CHOOSE k \in DOMAIN ClaimedKindOrder : ClaimedKindOrder[k] = kind

(* C5: the prompts and signing calls of a run of sign() visit the kinds in   *)
(* the order Ledger, Arculus, SecurityQuestions, OffDeviceMnemonic, Device:  *)
(* no source of a later kind comes before a source of an earlier kind.       *)
C5_KindOrder ==
    \A m, n \in DOMAIN Prompts :
        m < n => PlaceOfKind(Prompts[m].kind) <= PlaceOfKind(Prompts[n].kind)

C5_Witness ==
    /\ pc = "returned"
    /\ { Prompts[n].kind : n \in DOMAIN Prompts } = {Ledger, Arculus, Device}

(* C6: within one kind the sources are prompted in ascending last_used, and  *)
(* the prompt order is determined by the inputs: two coordinators made from  *)
(* the same inputs hold the same factors_of_kind.                            *)
C6_WithinKindOrder ==
    /\ \A m, n \in DOMAIN Prompts :
           (m < n /\ Prompts[m].kind = Prompts[n].kind)
               => Prompts[m].last_used <= Prompts[n].last_used
    /\ \A m, n \in DOMAIN history :
           (history[m].call = "new" /\ history[n].call = "new")
               => history[m].factors_of_kind = history[n].factors_of_kind

(* the part of C6 the code does keep                                         *)
AscendingLastUsedWithinKind ==
    \A k \in DOMAIN factors_of_kind :
        LET fs == factors_of_kind[k].factor_sources
        IN  \A m, n \in DOMAIN fs :
                m < n => all_factor_sources_in_profile[fs[m]].last_used
                             <= all_factor_sources_in_profile[fs[n]].last_used

Replays ==
    { n \in DOMAIN history : history[n].call = "append_signature" /\ history[n].replay }

-----------------------------------------------------------------------------
(* Claims about the prompts of SignaturesBuilderLevel0::do_sign              *)

IsSkip(h) == h.call = "sign_or_skip" /\ h.input = "Skip"

LastPrompt == history[Len(history)]

(* the entity builders that are Invalid, per transaction                     *)
InvalidBuilders(b0) ==
    { <<i, a>> \in UNION { { <<j, c>> : c \in DOMAIN b0[j] } : j \in DOMAIN b0 } :
          b0[i][a].status = "Invalid" }

TerminalBuilders(b0) ==
    { <<i, a>> \in UNION { { <<j, c>> : c \in DOMAIN b0[j] } : j \in DOMAIN b0 } :
          b0[i][a].status \in {"Invalid", "Signed"} }

SkippedWithEmptyReport ==
    /\ history # <<>>
    /\ IsSkip(LastPrompt)
    /\ LastPrompt.invalid_tx_if_skipped = {}

(* C11: a skip the user makes when invalid_if_skipped of the source is empty *)
(* makes no transaction fail: no entity builder becomes Invalid by it, the   *)
(* terminal builders are those that were terminal before, and nothing is     *)
(* added to failed_transactions.                                             *)
C11_NoSpuriousFailures ==
    [][ (Len(history') = Len(history) + 1 /\ SkippedWithEmptyReport')
            => /\ InvalidBuilders(builders_level_0') = InvalidBuilders(builders_level_0)
               /\ TerminalBuilders(builders_level_0') = TerminalBuilders(builders_level_0)
               /\ failed_transactions' = failed_transactions ]_vars

C11_Witness ==
    /\ SkippedWithEmptyReport
    /\ \E i \in DOMAIN builders_level_0 : \E a \in DOMAIN builders_level_0[i] :
           LastPrompt.factor_source
               \in Range(builders_level_0[i][a].skipped_factor_source_ids)

(* C12: a skip the user makes when invalid_if_skipped of the source is not   *)
(* empty is recorded in every transaction of the source, the transactions    *)
(* listed are in failed_transactions, and the operation goes on: it does not *)
(* end in a panic.                                                           *)
C12_SkipWithInvalidRecordedAndContinues ==
    \A n \in DOMAIN history :
        (IsSkip(history[n]) /\ history[n].invalid_tx_if_skipped # {})
            => /\ ~(pc = "panicked" /\ n = Len(history))
               /\ \A r \in history[n].invalid_tx_if_skipped :
                      r.intent_hash \in DOMAIN failed_transactions
               /\ \A t \in Range(factor_to_txid[history[n].factor_source]) :
                      \A a \in DOMAIN builders_level_0[t] :
                          history[n].factor_source
                              \in Range(builders_level_0[t][a].skipped_factor_source_ids)

(* a transaction is terminal when every one of its entity builders is Signed *)
(* (success) or one of them is Invalid (fail)                                *)
TransactionSigned(b1) == \A a \in DOMAIN b1 : b1[a].status = "Signed"

TransactionInvalid(b1) == \E a \in DOMAIN b1 : b1[a].status = "Invalid"

AllTransactionsTerminal ==
    /\ pc = "do_sign"
    /\ \A i \in DOMAIN builders_level_0 :
           TransactionSigned(builders_level_0[i]) \/ TransactionInvalid(builders_level_0[i])

(* C13: once every transaction is terminal (signed, or invalid) sign() issues*)
(* no further prompt and no further signing call.                            *)
C13_EarlyStop ==
    [][ AllTransactionsTerminal => Prompts' = Prompts ]_vars

SignOrSkipPrompts == SelectSeq(history, LAMBDA h : h.call = "sign_or_skip")

(* the user answered Sign at every prompt so far                             *)
PrudentRun ==
    \A n \in DOMAIN SignOrSkipPrompts : SignOrSkipPrompts[n].input = "Sign"

ScenarioS1 == transactions = <<<<AccountOrPersona("E1", Unsecured(DeviceA))>>>>

(* C18: with a user who answers Sign at every prompt (batch_sign returns a   *)
(* signature for every owned instance asked for) sign() does not abort, and  *)
(* when it has returned every transaction is signed and none is failed; for  *)
(* one transaction T1 of one entity unsecured by Device_A the outcome holds  *)
(* exactly the signature of Device_A for T1.                                 *)
C18_PrudentUserSucceeds ==
    (builders_level_0 # <<>> /\ PrudentRun)
        => /\ pc # "panicked"
           /\ pc = "returned" =>
                  /\ \A i \in DOMAIN builders_level_0 :
                         TransactionSigned(builders_level_0[i])
                  /\ failed_transactions = <<>>
                  /\ ScenarioS1 =>
                         outcome.all_signatures =
                             { SignatureByOwnedFactorForPayload(
                                   IntentHashOf(1), OwnedFactorInstance(DeviceA, "E1")) }

ScenarioS2 == transactions = <<<<AccountOrPersona("E1", MatrixS2)>>>>

(* the user skipped exactly when the report handed to the prompt was empty   *)
LazyRun ==
    \A n \in DOMAIN SignOrSkipPrompts :
        (SignOrSkipPrompts[n].input = "Skip")
            <=> (SignOrSkipPrompts[n].invalid_tx_if_skipped = {})

IsPrefix(s, t) == Len(s) <= Len(t) /\ \A n \in DOMAIN s : s[n] = t[n]

AnswersByKind ==
    [n \in DOMAIN SignOrSkipPrompts |->
        <<SignOrSkipPrompts[n].kind, SignOrSkipPrompts[n].input>>]

(* C19: scenario S2.  One transaction, one entity with threshold 2 of        *)
(* [Ledger_A, Ledger_B, Arculus_A] and override [Device_A], a user who skips *)
(* exactly when the report is empty: the two Ledgers sign, Arculus_A and     *)
(* Device_A are skipped, and sign() returns exactly the two signatures of    *)
(* the Ledgers.                                                              *)
C19_ScenarioS2 ==
    (ScenarioS2 /\ LazyRun)
        => /\ pc # "panicked"
           /\ IsPrefix(AnswersByKind,
                       <<<<Ledger, "Sign">>, <<Ledger, "Sign">>,
                         <<Arculus, "Skip">>, <<Device, "Skip">>>>)
           /\ pc = "returned" =>
                  /\ Len(AnswersByKind) = 4
                  /\ outcome.all_signatures =
                         { SignatureByOwnedFactorForPayload(
                               IntentHashOf(1), OwnedFactorInstance(id, "E1"))
                           : id \in {LedgerA, LedgerB} }

(* the policy of entity a of transaction i                                   *)
PolicyOf(i, a) ==
    (CHOOSE e \in Range(transactions[i]) : e.address = a).security_state

(* no override factor of the policy has been prompted for before prompt n,   *)
(* so none is signed or skipped at prompt n                                  *)
OverrideUntouchedAt(n, policy) ==
    /\ policy.override_factors # <<>>
    /\ \A m \in 1..(n - 1) :
           SignOrSkipPrompts[m].factor_source \notin Range(policy.override_factors)

(* C20: scenario S3.  While an override factor of an entity is neither signed*)
(* nor skipped, the report for a threshold factor source does not list the   *)
(* entity; and with the policy of S2 the user can skip the three threshold   *)
(* sources and sign with Device_A, and sign() returns exactly the signature  *)
(* of Device_A.                                                              *)
C20_OverrideShortCircuitsThreshold ==
    /\ \A n \in DOMAIN SignOrSkipPrompts :
           \A r \in SignOrSkipPrompts[n].invalid_tx_if_skipped :
               \A a \in r.entities_which_would_fail_auth :
                   LET policy == PolicyOf(r.intent_hash, a)
                       id == SignOrSkipPrompts[n].factor_source
                   IN  ~ /\ id \in Range(policy.threshold_factors)
                         /\ id \notin Range(policy.override_factors)
                         /\ OverrideUntouchedAt(n, policy)
    /\ (/\ ScenarioS2
        /\ SignOrSkipPrompts # <<>>
        /\ IsPrefix([n \in DOMAIN SignOrSkipPrompts |-> SignOrSkipPrompts[n].input],
                    <<"Skip", "Skip", "Skip", "Sign">>))
           => /\ pc # "panicked"
              /\ pc = "returned" =>
                     outcome.all_signatures =
                         { SignatureByOwnedFactorForPayload(
                               IntentHashOf(1), OwnedFactorInstance(DeviceA, "E1")) }

-----------------------------------------------------------------------------
(* SigningDriver::sign with a serial driver that returns                     *)
(* (redone_functional/signing_drivers.rs).  SigningDriverSerial::sign_serial *)
(* has no body in the repository; here it is the driver of spec.md 4.5,      *)
(* which answers every call with some SignWithFactorSourceOrSourcesOutcome.  *)

Signed(signatures) == [tag |-> "Signed", signatures |-> signatures]

SkippedOutcome == [tag |-> "Skipped"]

Interrupted(interruption) == [tag |-> "Interrupted", interruption |-> interruption]

(* the shares a driver can produce with factor source id: one for every      *)
(* entity of every transaction that declares an instance of it               *)
SharesOf(id) ==
    UNION { { SignatureByOwnedFactorForPayload(
                  IntentHashOf(i), OwnedFactorInstance(id, transactions[i][j].address))
              : j \in { k \in DOMAIN transactions[i] :
                            id \in Range(FactorIdsOfEntity(transactions[i][k])) } }
            : i \in DOMAIN transactions }

(* the answers of sign_serial for one factor source                          *)
SignSerial(id) ==
    { Signed(signatures) : signatures \in SUBSET SharesOf(id) }
    \cup {SkippedOutcome}
    \cup { Interrupted(i) : i \in {"Timeout", "UserAborted", "Failed"} }

NoMatchArm == "no match arm"

(* SignaturesBuilder::skipped of one factor source: every entity petition of *)
(* every transaction of the source, PetitionOfTransactionByEntity::skipped   *)
SkippedInPetitions(txid_to_petition, id) ==
    LET referencing ==
            { <<i, j>> \in UNION { { <<t, k>> : k \in DOMAIN txid_to_petition[t].for_entities }
                                   : t \in Range(factor_to_txid[id]) } :
                  Petition(txid_to_petition[i].for_entities[j], id) # "None" }
        list(i, j) == ListOf(txid_to_petition[i].for_entities[j],
                             Petition(txid_to_petition[i].for_entities[j], id))
    IN  IF \E ij \in referencing :
               ~AssertNotReferencingFactorSource(list(ij[1], ij[2]), id)
        THEN [petitions |-> txid_to_petition, panic |-> AlreadyUsed]
        ELSE [petitions |->
                  [i \in DOMAIN txid_to_petition |->
                      [txid_to_petition[i] EXCEPT !.for_entities =
                          [j \in DOMAIN @ |->
                              IF <<i, j>> \in referencing
                              THEN WithList(@[j], Petition(@[j], id),
                                            [list(i, j) EXCEPT !.skipped = @ \cup {id}])
                              ELSE @[j]]]],
              panic |-> NoPanic]

(* the calls of sign_serial made so far for the kind under way               *)
SignSerialCalls ==
    SelectSeq(history, LAMBDA h : h.call = "sign_serial")

(* one iteration of the loop of the Serial arm of SigningDriver::sign: the   *)
(* call of sign_serial for the next source of the kind and the match on its  *)
(* outcome; after the last source of the kind the function ends in `todo!()` *)
SigningDriverSignSerial ==
    /\ pc = "do_sign"
    /\ cursor \in DOMAIN factors_of_kind
    /\ DriverForFactorSourceKind(factors_of_kind[cursor].kind) = "Serial"
    /\ LET factor_sources == factors_of_kind[cursor].factor_sources
           at == Len(SignSerialCalls) + 1
       IN  /\ at \in DOMAIN factor_sources
           /\ \E sign_with_factor_source_outcome \in SignSerial(factor_sources[at]) :
               \E no_arm \in {"nothing", "panic"} :
                 LET id == factor_sources[at]
                     o == sign_with_factor_source_outcome
                     r == CASE o.tag = "Signed" ->
                                   [petitions |-> petitions, panic |-> NoPanic]
                            [] o.tag = "Skipped" -> SkippedInPetitions(petitions, id)
                            [] o.tag = "Interrupted" /\ o.interruption = "Failed" ->
                                   [petitions |-> petitions, panic |-> Todo]
                            [] OTHER ->
                                   [petitions |-> petitions,
                                    panic |-> IF no_arm = "panic" THEN NoMatchArm
                                              ELSE NoPanic]
                 IN  /\ history' = Append(history,
                                          [call |-> "sign_serial",
                                           kind |-> factors_of_kind[cursor].kind,
                                           factor_source |-> id, outcome |-> o])
                     /\ petitions' = r.petitions
                     /\ IF r.panic # NoPanic
                        THEN pc' = "panicked" /\ panic' = r.panic
                        ELSE IF at = Len(factor_sources)
                        THEN pc' = "panicked" /\ panic' = Todo
                        ELSE pc' = pc /\ panic' = panic
    /\ UnchangedInputs /\ UnchangedLevel0
    /\ UNCHANGED <<factors_of_kind, factor_to_txid, outcome, cursor>>

NextDrivers ==
    New \/ SignCalled \/ DriverSignParallel \/ SigningDriverSignSerial \/ SignReturns

SpecDrivers == Init /\ [][NextDrivers]_vars

-----------------------------------------------------------------------------
(* Claims about the handling of the outcomes of a driver                     *)

IsSignSerial(h) == h.call = "sign_serial"

IsInterrupted(h, interruptions) ==
    /\ IsSignSerial(h)
    /\ h.outcome.tag = "Interrupted"
    /\ h.outcome.interruption \in interruptions

(* the transactions whose petitions are not all Success                      *)
NotSuccessful == { i \in DOMAIN petitions : ~TransactionSucceeded(i) }

(* C14: after a driver call has returned UserAborted no further prompt or    *)
(* driver call is issued, the operation does not end in a panic, and the     *)
(* Outcome sign() returns reports every transaction that is not Success as   *)
(* failed.                                                                   *)
C14_UserAbortedTerminates ==
    \A n \in DOMAIN history :
        IsInterrupted(history[n], {"UserAborted"})
            => /\ n = Len(history)
               /\ pc # "panicked"
               /\ pc = "returned" =>
                      \A i \in NotSuccessful :
                          IntentHashOf(i) \in DOMAIN outcome.failed_transactions

(* the shares the driver calls before call n have returned                   *)
SharesBefore(n) ==
    UNION { history[m].outcome.signatures :
                m \in { k \in 1..(n - 1) : /\ IsSignSerial(history[k])
                                            /\ history[k].outcome.tag = "Signed" } }

SharesOfEntity(shares, i, e, factors) ==
    { sig \in shares : /\ sig.intent_hash = IntentHashOf(i)
                       /\ sig.owned_factor_instance.owner = e.address
                       /\ sig.owned_factor_instance.factor_source_id \in Range(factors) }

(* every entity of transaction i has its quorum among the shares             *)
SuccessByShares(shares, i) ==
    /\ transactions[i] # <<>>
    /\ \A j \in DOMAIN transactions[i] :
           LET e == transactions[i][j]
               m == e.security_state
           IN  \/ Cardinality(SharesOfEntity(shares, i, e, m.threshold_factors))
                      >= m.threshold
               \/ SharesOfEntity(shares, i, e, m.override_factors) # {}

(* C15: a transaction whose entities all had their quorum of signatures when *)
(* the user aborted at a later driver call is in Outcome.successful, with the*)
(* signatures collected for it before the abort: the operation ends by       *)
(* returning that Outcome.                                                   *)
C15_PartialProgressSurvivesAbort ==
    \A n \in DOMAIN history : \A i \in DOMAIN transactions :
        (IsInterrupted(history[n], {"UserAborted"}) /\ SuccessByShares(SharesBefore(n), i))
            => /\ pc \in {"do_sign", "returned"}
               /\ pc = "returned" =>
                      /\ IntentHashOf(i) \in DOMAIN outcome.successful_transactions
                      /\ { sig \in SharesBefore(n) : sig.intent_hash = IntentHashOf(i) }
                             \subseteq outcome.successful_transactions[IntentHashOf(i)]

(* factor source id is recorded as skipped in every entity petition that     *)
(* references it                                                             *)
RecordedAsSkipped(id) ==
    \A t \in Range(factor_to_txid[id]) : \A e \in Range(petitions[t].for_entities) :
        Petition(e, id) # "None" => id \in ListOf(e, Petition(e, id)).skipped

(* C16: a driver call that fails (Failed, or Timeout) never aborts the       *)
(* operation; the coordinator either repeats the call for the same source or *)
(* records the source as skipped and continues.                              *)
C16_DriverFailedIsRecoverable ==
    \A n \in DOMAIN history :
        IsInterrupted(history[n], {"Failed", "Timeout"})
            => /\ ~(pc = "panicked" /\ n = Len(history))
               /\ n < Len(history) =>
                      \/ /\ IsSignSerial(history[n + 1])
                         /\ history[n + 1].factor_source = history[n].factor_source
                      \/ RecordedAsSkipped(history[n].factor_source)

(* C17: when a driver call returns Signed without a share of a factor source *)
(* it was dispatched for, that source is recorded as skipped in every        *)
(* transaction that references it.                                           *)
C17_SourcesWithoutShareAreSkipped ==
    \A n \in DOMAIN history :
        (/\ IsSignSerial(history[n])
         /\ history[n].outcome.tag = "Signed"
         /\ \A sig \in history[n].outcome.signatures :
                sig.owned_factor_instance.factor_source_id # history[n].factor_source)
            => RecordedAsSkipped(history[n].factor_source)

-----------------------------------------------------------------------------
(* Claims about the status of the factor lists and of the entities           *)
(* (redone_functional/sign_with_factors.rs)                                  *)

EntityPetitions ==
    UNION { Range(petitions[i].for_entities) : i \in DOMAIN petitions }

ListPetitions ==
    UNION { {e.threshold_factors, e.override_factors} : e \in EntityPetitions }

(* C21: a factor-list petition has status Success if and only if             *)
(* signed_count >= required and required > 0; a list with required = 0 is    *)
(* never Success.                                                            *)
C21_ListSuccess ==
    \A p \in ListPetitions :
        ListStatus(p) = "Success"
            <=> (Cardinality(p.signed) >= p.required /\ p.required > 0)

RemainingToPrompt(p) ==
    Len(p.factors) - Cardinality(p.signed) - Cardinality(p.skipped)

(* C22: a factor-list petition that is not Success has status Fail if and    *)
(* only if remaining_to_prompt + signed_count < required, with               *)
(* remaining_to_prompt = |factors| - signed_count - skipped_count; otherwise *)
(* it is InProgress.                                                         *)
C22_ListFail ==
    \A p \in ListPetitions :
        ListStatus(p) # "Success"
            => IF RemainingToPrompt(p) + Cardinality(p.signed) < p.required
               THEN ListStatus(p) = "Fail"
               ELSE ListStatus(p) = "InProgress"

IsNotUsed(p) == p.factors = <<>> /\ p.required = 0

(* C23: the not-used override list of an unsecured entity has status Fail,   *)
(* so the status of the entity equals the status of its Threshold(1)         *)
(* single-factor list: InProgress before its factor source is prompted,      *)
(* Success once it signs, Fail once it is skipped.                           *)
C23_UnsecuredEntity ==
    \A e \in EntityPetitions :
        IsNotUsed(e.override_factors)
            => /\ ListStatus(e.override_factors) = "Fail"
               /\ EntityStatus(e) = ListStatus(e.threshold_factors)
               /\ EntityStatus(e) =
                      ( IF e.threshold_factors.signed # {} THEN "Success"
                        ELSE IF e.threshold_factors.skipped # {} THEN "Fail"
                        ELSE "InProgress" )

ListStatuses == {"InProgress", "Fail", "Success"}

(* the combined status table of the entity petition, as the claim states it *)
ClaimedCombinedStatus(t, o) ==
    IF t = "Success" \/ o = "Success" THEN "Success"
    ELSE IF t = "Fail" /\ o = "Fail" THEN "Fail"
    ELSE "InProgress"

(* C24: for every pair of threshold status T and override status O, the      *)
(* entity status is Success if T or O is Success, Fail if both T and O are   *)
(* Fail, and InProgress in every other case.                                 *)
C24_CombinedStatus ==
    /\ \A t \in ListStatuses : \A o \in ListStatuses :
           CombinedStatus(t, o) = ClaimedCombinedStatus(t, o)
    /\ \A e \in EntityPetitions :
           EntityStatus(e) = ClaimedCombinedStatus(ListStatus(e.threshold_factors),
                                                   ListStatus(e.override_factors))

(* an entity whose threshold list has failed after recorded calls while its  *)
(* override list still has hope: the entity is InProgress                    *)
C24_Witness ==
    /\ history # <<>>
    /\ \E e \in EntityPetitions :
           /\ ListStatus(e.threshold_factors) = "Fail"
           /\ ListStatus(e.override_factors) = "InProgress"
           /\ EntityStatus(e) = "InProgress"

-----------------------------------------------------------------------------
(* The status of a transaction (signatures_builder_level1.rs)                *)

(* has_fulfilled_signatures_requirement with `any` in place of `all`         *)
HasFulfilledSignaturesRequirementAnyEntity(builders) ==
    \E a \in DOMAIN builders : HasFulfilledSignaturesRequirement(builders[a])

(* SignaturesBuilderLevel1::has_fulfilled_signatures_requirement             *)
HasFulfilledSignaturesRequirementLevel1(builders) ==
    \A a \in DOMAIN builders : HasFulfilledSignaturesRequirement(builders[a])

(* the three-valued status of a transaction: Success is the code's           *)
(* has_fulfilled_signatures_requirement; the Fail arm follows the           *)
(* specification of the transaction petition, the builder has no such query  *)
StatusOfTransaction(builders) ==
    IF HasFulfilledSignaturesRequirementLevel1(builders) THEN "Success"
    ELSE IF \E a \in DOMAIN builders : IsInvalid(builders[a]) THEN "Fail"
    ELSE "InProgress"

(* the status of an entity of a transaction in the words of the petitions    *)
StatusOfEntity(b) ==
    CASE CalculateStatus(b) = "Signed" -> "Success"
      [] CalculateStatus(b) = "Invalid" -> "Fail"
      [] OTHER -> "InProgress"

-----------------------------------------------------------------------------
(* Claims about the petitions built by SignaturesBuilder::new                *)

AddressesOf(entities) == { entities[j].address : j \in DOMAIN entities }

(* C26: after construction each transaction petition holds exactly one      *)
(* entity petition for every entity in that transaction's                   *)
(* entities_requiring_auth, keyed by the address of the entity; a            *)
(* transaction with two or more entities keeps a petition for each of them.  *)
C26_OnePetitionPerEntity ==
    Constructed =>
        \A i \in DOMAIN petitions :
            LET for_entities == petitions[i].for_entities
            IN  /\ { for_entities[j].entity : j \in DOMAIN for_entities }
                       = AddressesOf(transactions[i])
                /\ Len(for_entities) = Cardinality(AddressesOf(transactions[i]))

-----------------------------------------------------------------------------
(* Claims about the report of a skip and the signing input                   *)
(* (signatures_builder_level0.rs, signatures_builder_level1.rs)              *)

(* the pairs (transaction, entity) of a report                               *)
PairsOf(report) ==
    UNION { { <<r.intent_hash, a>> : a \in r.entities_which_would_fail_auth } :
                r \in report }

(* the entity builder once a skip of the source is recorded on it            *)
AfterSkipOf(b, id) ==
    IF OwnsInstanceOfFactorSource(b, id)
    THEN [b EXCEPT !.skipped_factor_source_ids = Append(@, id)]
    ELSE b

(* the pairs the claim puts in the report: the entity is InProgress now and  *)
(* would be Fail with the skip recorded                                      *)
WouldFailIfSkipped(b0, tx_ids, id) ==
    { <<tx_ids[k], a>> : k \in DOMAIN tx_ids, a \in UNION { DOMAIN b0[i] : i \in DOMAIN b0 } }
        \cap { pair \in (DOMAIN b0) \X UNION { DOMAIN b0[i] : i \in DOMAIN b0 } :
                   /\ pair[2] \in DOMAIN b0[pair[1]]
                   /\ StatusOfEntity(b0[pair[1]][pair[2]]) = "InProgress"
                   /\ StatusOfEntity(AfterSkipOf(b0[pair[1]][pair[2]], id)) = "Fail" }

(* C27: invalid_if_skipped(F), evaluated in any state, contains the pair     *)
(* (transaction T, entity E) exactly when T references F and E is currently  *)
(* InProgress but its combined status would be Fail after recording a skip   *)
(* of F; the result is the union of these reports over all transactions      *)
(* referencing F.                                                            *)
C27_InvalidIfSkipped ==
    (pc # "panicked" /\ builders_level_0 # <<>>) =>
        \A id \in DOMAIN factor_to_txid :
            /\ InvalidIfSkipPanics(builders_level_0, factor_to_txid[id], id) = {}
            /\ PairsOf(InvalidIfSkipFactorSource(builders_level_0, factor_to_txid[id], id))
                   = WouldFailIfSkipped(builders_level_0, factor_to_txid[id], id)

-----------------------------------------------------------------------------
(* Claims about the queries and the recordings of an entity petition         *)
(* (redone_functional/sign_with_factors.rs)                                  *)

IsStatusIfSkipped(h) == h.call = "status_if_skipped_factor_source"

(* C28: status_if_skipped(F) is a pure query: for any entity petition and    *)
(* any factor source F it returns the status the entity would have after     *)
(* record_skip(F) without raising an error, and leaves the signed and        *)
(* skipped sets of both of the entity's list petitions unchanged.            *)
C28_StatusIfSkippedIsPure ==
    \A n \in DOMAIN history :
        IsStatusIfSkipped(history[n]) =>
            /\ history[n].status \in ListStatuses
            /\ history[n].lists_after = history[n].lists_before

IsRecording(h) == h.call \in {"skip_factor_sources", "append_signature"}

RecordedFactorSource(h) ==
    IF h.call = "append_signature"
    THEN h.signature.owned_factor_instance.factor_source_id
    ELSE h.factor_source

(* what the recording of the source may change in an entity that references  *)
(* it: the source among the skipped ones, signatures of the source, status   *)
OnlyRecordedSourceChanges(before, after, id) ==
    /\ Range(after.skipped_factor_source_ids) \ Range(before.skipped_factor_source_ids)
           \subseteq {id}
    /\ \A sig \in Range(after.signatures) \ Range(before.signatures) :
           sig.owned_factor_instance.factor_source_id = id
    /\ [after EXCEPT !.skipped_factor_source_ids = <<>>, !.signatures = <<>>,
                     !.status = "Building"]
           = [before EXCEPT !.skipped_factor_source_ids = <<>>, !.signatures = <<>>,
                            !.status = "Building"]

(* C29: recording a skip or a signature for factor source F is a no-op for   *)
(* every entity that references F in neither list, and leaves every          *)
(* transaction that does not reference F unchanged; within a referencing     *)
(* entity only what belongs to F changes.                                    *)
C29_RecordingLeavesOthersAlone ==
    [][ (Len(history') = Len(history) + 1 /\ IsRecording(history'[Len(history')]))
            => LET id == RecordedFactorSource(history'[Len(history')])
               IN  /\ panic' # MustBeInEither
                   /\ \A i \in DOMAIN builders_level_0 :
                      \A a \in DOMAIN builders_level_0[i] :
                          IF OwnsInstanceOfFactorSource(builders_level_0[i][a], id)
                          THEN OnlyRecordedSourceChanges(builders_level_0[i][a],
                                                         builders_level_0'[i][a], id)
                          ELSE builders_level_0'[i][a] = builders_level_0[i][a] ]_vars

-----------------------------------------------------------------------------
(* The signing input of a factor source (redone_functional/petitions.rs)     *)

(* PetitionOfTransactionByEntity::all_factor_instances: the override factors,*)
(* then the threshold factors not among them (IndexSet::union), every one    *)
(* owned by the entity of the petition                                       *)
AllFactorInstancesOfEntity(e) ==
    LET ids == e.override_factors.factors
                   \o SelectSeq(e.threshold_factors.factors,
                                LAMBDA f : f \notin Range(e.override_factors.factors))
    IN  [n \in DOMAIN ids |-> OwnedFactorInstance(ids[n], e.entity)]

(* PetitionOfTransaction::all_factor_instances                               *)
AllFactorInstances(petition) ==
    IndexSetFromIter(
        Concat([j \in DOMAIN petition.for_entities |->
                   AllFactorInstancesOfEntity(petition.for_entities[j])]))

(* Petitions::input_for_factor_source: one input per transaction of the      *)
(* source, in the order of factor_to_txid                                    *)
InputForFactorSource(f2t, txid_to_petition, id) ==
    [k \in DOMAIN f2t[id] |->
        [intent_hash |-> f2t[id][k],
         instances |-> AllFactorInstances(txid_to_petition[f2t[id][k]])]]

(* the transactions that reference the source, in the order of the input    *)
TransactionsReferencing(id) ==
    SelectSeq([i \in DOMAIN transactions |-> IntentHashOf(i)],
              LAMBDA t : id \in Range(FactorIdsOfTransaction(transactions[t])))

(* the owned instances of the source among the entities of a transaction     *)
OwnedInstancesOf(entities, id) ==
    { OwnedFactorInstance(id, entities[j].address) :
          j \in { k \in DOMAIN entities : id \in Range(FactorIdsOfEntity(entities[k])) } }

(* C30: the signing input for factor source F contains, in original          *)
(* transaction order, exactly the transactions that reference F, and for     *)
(* each such transaction exactly the owned factor instances (of any entity   *)
(* of that transaction) whose factor source is F; it never includes          *)
(* instances of other factor sources.                                        *)
C30_SigningInput ==
    Constructed =>
        \A id \in DOMAIN factor_to_txid :
            LET input == InputForFactorSource(factor_to_txid, petitions, id)
            IN  /\ [k \in DOMAIN input |-> input[k].intent_hash]
                       = TransactionsReferencing(id)
                /\ \A k \in DOMAIN input :
                       Range(input[k].instances)
                           = OwnedInstancesOf(transactions[input[k].intent_hash], id)

-----------------------------------------------------------------------------
(* Claims about the indexes built by SignaturesBuilder::new                  *)

(* the entity has a factor instance of the source in its threshold list, in  *)
(* its override list or as its unsecured factor                              *)
EntityUses(e, id) ==
    \/ id \in Range(e.security_state.threshold_factors)
    \/ id \in Range(e.security_state.override_factors)

SourcesInFactorsOfKind ==
    UNION { Range(factors_of_kind[k].factor_sources) : k \in DOMAIN factors_of_kind }

(* C31: after construction, intent hash T is in factor_to_tx[F] if and only  *)
(* if some entity of transaction T has a factor instance of source F in its  *)
(* threshold list, its override list or as its unsecured factor; the sources *)
(* grouped in factors_of_kind are exactly the keys of factor_to_tx, each     *)
(* under its own kind.                                                       *)
C31_ReverseIndex ==
    Constructed =>
        /\ \A id \in ConfiguredIds \cup {UnknownSource} : \A i \in DOMAIN transactions :
               (id \in DOMAIN factor_to_txid /\ IntentHashOf(i) \in Range(factor_to_txid[id]))
                   <=> \E j \in DOMAIN transactions[i] : EntityUses(transactions[i][j], id)
        /\ SourcesInFactorsOfKind = DOMAIN factor_to_txid
        /\ \A k \in DOMAIN factors_of_kind :
               \A id \in Range(factors_of_kind[k].factor_sources) :
                   all_factor_sources_in_profile[id].kind = factors_of_kind[k].kind

(* two transactions, a source used by both and a source used by one of them, *)
(* of two kinds, the first used as an override factor                        *)
C31_Witness ==
    /\ Constructed
    /\ Len(transactions) = 2
    /\ \E id \in DOMAIN factor_to_txid : Len(factor_to_txid[id]) = 2
    /\ \E id \in DOMAIN factor_to_txid :
           /\ factor_to_txid[id] = <<2>>
           /\ \E j \in DOMAIN transactions[2] :
                  id \in Range(transactions[2][j].security_state.override_factors)
    /\ Len(factors_of_kind) >= 2

-----------------------------------------------------------------------------
(* Claims about the recordings on a factor list                              *)
(* (redone_functional/sign_with_factors.rs)                                  *)

(* the step is a call of `skipped` for the source on the entity petition of  *)
(* the transaction, completed or ended in the assertion                      *)
SkipCalled(i, id) ==
    /\ Len(history') = Len(history) + 1
    /\ history'[Len(history')].call \in {"skipped", "skipped panicked"}
    /\ history'[Len(history')].transaction_index = i
    /\ history'[Len(history')].factor_source = id

(* C32: record_skip on a factor-list petition, for a factor source that      *)
(* appears in the list's factors and has been neither signed nor skipped in  *)
(* that list, completes without error and adds the source to skipped         *)
(* (signed is unchanged); it is fatal only when the source was already       *)
(* recorded in that list.                                                    *)
C32_RecordSkip ==
    [][ \A i \in DOMAIN petitions : \A j \in DOMAIN petitions[i].for_entities :
        \A id \in ConfiguredIds :
            LET e == petitions[i].for_entities[j]
                which == Petition(e, id)
                p == ListOf(e, which)
            IN  (SkipCalled(i, id) /\ which # "None")
                    => IF id \notin p.signed \cup p.skipped
                       THEN /\ pc' # "panicked"
                            /\ ListOf(petitions'[i].for_entities[j], which)
                                   = [p EXCEPT !.skipped = @ \cup {id}]
                       ELSE pc' = "panicked" ]_vars

(* C33: in every reachable state and for every factor-list petition, no      *)
(* factor source is both in signed and in skipped, and every signed or       *)
(* skipped factor instance is one of the list's declared factors.            *)
C33_SignedAndSkippedDisjoint ==
    \A p \in ListPetitions :
        /\ p.signed \cap p.skipped = {}
        /\ p.signed \cup p.skipped \subseteq Range(p.factors)

-----------------------------------------------------------------------------
(* Claims about the order of the driver calls and the recordings             *)
(* (redone_functional/signing_drivers.rs)                                    *)

(* the share is recorded as signed in the petition of its entity            *)
RecordedInPetitions(sig) ==
    \E e \in Range(petitions[sig.intent_hash].for_entities) :
        /\ e.entity = sig.owned_factor_instance.owner
        /\ sig.owned_factor_instance.factor_source_id
               \in e.threshold_factors.signed \cup e.override_factors.signed

(* C34: all signatures returned by one driver call are recorded in the       *)
(* petitions before the next driver call is issued, so the input computed    *)
(* for the next factor source (including the next source of the same kind    *)
(* under a serial driver) already reflects them.                             *)
C34_SignaturesRecordedBeforeNextCall ==
    [][ (Len(history') = Len(history) + 1 /\ IsSignSerial(history'[Len(history')]))
            => \A sig \in SharesBefore(Len(history) + 1) : RecordedInPetitions(sig) ]_vars

-----------------------------------------------------------------------------
(* SignaturesBuilderLevel0::do_sign and sign_with step by step: every await  *)
(* is a call that is issued (the future is suspended, the call outstanding)  *)
(* and later returns; the statements after it run in a step of their own.    *)
(* A call is a history record with `returned` FALSE until it has returned.   *)

Outstanding ==
    { n \in DOMAIN history :
          /\ history[n].call \in {"sign_or_skip", "batch_sign"}
          /\ ~history[n].returned }

(* the sign_or_skip call of the factor source do_sign is at                  *)
LastSignOrSkip ==
    CHOOSE n \in DOMAIN history :
        /\ history[n].call = "sign_or_skip"
        /\ \A m \in DOMAIN history : m > n => history[m].call # "sign_or_skip"

(* the batch_sign calls sign_with has made for that factor source            *)
BatchSignsOfSource == SubSeq(history, LastSignOrSkip + 1, Len(history))

(* do_sign up to `self.user.sign_or_skip(..).await`                          *)
PromptSignOrSkip ==
    /\ pc = "do_sign"
    /\ cursor \in DOMAIN PromptOrder(factors_of_kind)
    /\ LET id == PromptOrder(factors_of_kind)[cursor]
           tx_ids == factor_to_txid[id]
           panics == InvalidIfSkipPanics(builders_level_0, tx_ids, id)
           invalid_txs_if_skipped ==
               InvalidIfSkipFactorSource(builders_level_0, tx_ids, id)
       IN  /\ prompted_factor_sources' = IndexSetInsert(prompted_factor_sources, id)
           /\ IF panics # {}
              THEN /\ pc' = "panicked"
                   /\ panic' \in panics
                   /\ history' = history
              ELSE /\ pc' = "sign_or_skip"
                   /\ panic' = panic
                   /\ history' = Append(history,
                          [call |-> "sign_or_skip", factor_source |-> id,
                           invalid_tx_if_skipped |-> invalid_txs_if_skipped,
                           input |-> "Pending", returned |-> FALSE])
    /\ UnchangedInputs /\ UnchangedRedone
    /\ UNCHANGED <<factors_of_kind, builders_level_0, failed_transactions, cursor>>

(* the user answers the outstanding sign_or_skip                             *)
SignOrSkipAnswered ==
    /\ pc = "sign_or_skip"
    /\ \E input \in {"Sign", "Skip"} :
           history' = [history EXCEPT ![Len(history)] =
                          [@ EXCEPT !.input = input, !.returned = TRUE]]
    /\ pc' = "answered"
    /\ panic' = panic
    /\ UnchangedInputs /\ UnchangedRedone /\ UnchangedLevel0
    /\ UNCHANGED <<factors_of_kind, cursor>>

(* do_sign after the answer Skip: skip_factor_sources, then the report is    *)
(* added to failed_transactions                                              *)
SkipAfterAnswer ==
    /\ pc = "answered"
    /\ history[Len(history)].input = "Skip"
    /\ LET id == PromptOrder(factors_of_kind)[cursor]
       IN  \E orders \in AddressOrders(builders_level_0) :
             LET r == SkipFactorSourcesLevel0(builders_level_0, factor_to_txid[id],
                                              orders, id)
             IN  /\ builders_level_0' = r.builders
                 /\ panic' = r.panic
                 /\ IF r.panic # NoPanic
                    THEN /\ pc' = "panicked"
                         /\ UNCHANGED <<failed_transactions, cursor>>
                    ELSE /\ pc' = "do_sign"
                         /\ cursor' = cursor + 1
                         /\ failed_transactions' =
                                ExtendFailed(failed_transactions,
                                    history[Len(history)].invalid_tx_if_skipped)
    /\ UnchangedInputs /\ UnchangedRedone
    /\ UNCHANGED <<factors_of_kind, prompted_factor_sources, history>>

(* sign_with up to `factor_source.batch_sign(..).await` of its next          *)
(* transaction: owned_instances_of_factor_source, then the call              *)
CallBatchSign ==
    /\ \/ pc = "answered" /\ history[Len(history)].input = "Sign"
       \/ pc = "batch_signed"
    /\ LET id == PromptOrder(factors_of_kind)[cursor]
           tx_ids == factor_to_txid[id]
           done == Len(BatchSignsOfSource)
       IN  /\ done < Len(tx_ids)
           /\ IF OwnedInstancesPanics(builders_level_0[tx_ids[done + 1]], id)
              THEN /\ pc' = "panicked"
                   /\ panic' = MustBeEither
                   /\ history' = history
              ELSE /\ pc' = "batch_sign"
                   /\ panic' = panic
                   /\ history' = Append(history,
                          [call |-> "batch_sign", factor_source |-> id,
                           intent_hash |-> tx_ids[done + 1],
                           signatures |-> <<>>, returned |-> FALSE])
    /\ UnchangedInputs /\ UnchangedRedone /\ UnchangedLevel0
    /\ UNCHANGED <<factors_of_kind, cursor>>

(* the outstanding batch_sign returns its signatures into the local          *)
(* `signatures` of sign_with                                                 *)
BatchSignReturnsIntoBuilders ==
    /\ pc = "batch_sign"
    /\ LET call == history[Len(history)]
       IN  \E order \in IterationOrders(
                   DOMAIN builders_level_0[call.intent_hash]) :
             LET sigs == BatchSign(call.intent_hash, order, call.factor_source)
             IN  /\ history' = [history EXCEPT ![Len(history)] =
                        [@ EXCEPT !.signatures = sigs, !.returned = TRUE]]
                 /\ builders_level_0' = AppendAll(builders_level_0, sigs).builders
    /\ pc' = "batch_signed"
    /\ panic' = panic
    /\ UnchangedInputs /\ UnchangedRedone
    /\ UNCHANGED <<factors_of_kind, cursor, prompted_factor_sources,
                   failed_transactions>>

BatchSignReturns ==
    /\ pc = "batch_sign"
    /\ LET call == history[Len(history)]
       IN  \E order \in IterationOrders(
                   DOMAIN builders_level_0[call.intent_hash]) :
               history' = [history EXCEPT ![Len(history)] =
                   [@ EXCEPT !.signatures =
                                 BatchSign(call.intent_hash, order,
                                           call.factor_source),
                             !.returned = TRUE]]
    /\ pc' = "batch_signed"
    /\ panic' = panic
    /\ UnchangedInputs /\ UnchangedRedone /\ UnchangedLevel0
    /\ UNCHANGED <<factors_of_kind, cursor>>

(* sign_with after its loop: every collected signature is appended           *)
AppendSignatures ==
    /\ pc = "batch_signed"
    /\ LET id == PromptOrder(factors_of_kind)[cursor]
           calls == BatchSignsOfSource
           r == AppendAll(builders_level_0,
                          IndexSetFromIter(
                              Concat([k \in DOMAIN calls |-> calls[k].signatures])))
       IN  /\ Len(calls) = Len(factor_to_txid[id])
           /\ builders_level_0' = r.builders
           /\ panic' = r.panic
           /\ IF r.panic # NoPanic
              THEN pc' = "panicked" /\ cursor' = cursor
              ELSE pc' = "do_sign" /\ cursor' = cursor + 1
    /\ UnchangedInputs /\ UnchangedRedone
    /\ UNCHANGED <<factors_of_kind, prompted_factor_sources, failed_transactions,
                   history>>

NextSuspension ==
    \/ NewLevel0
    \/ SignCalled
    \/ PromptSignOrSkip
    \/ SignOrSkipAnswered
    \/ SkipAfterAnswer
    \/ CallBatchSign
    \/ BatchSignReturns
    \/ AppendSignatures
    \/ SignReturnsLevel0

SpecSuspension == Init /\ [][NextSuspension]_vars

(* C35: single writer, no overlap: at most one user prompt or driver call is *)
(* outstanding at any time, and the builders of the coordinator are mutated  *)
(* only in a step taken while no call is outstanding, after the awaited call *)
(* has returned its outcome.                                                 *)
C35_SingleWriterNoOverlap ==
    [][ /\ Cardinality(Outstanding') <= 1
        /\ builders_level_0' # builders_level_0 => Outstanding = {} ]_vars

(* a batch_sign call has returned a signature that the builders do not hold  *)
(* yet, and the next batch_sign call of sign_with is outstanding             *)
C35_Witness ==
    /\ pc = "batch_sign"
    /\ \E n \in DOMAIN history :
           /\ history[n].call = "batch_sign"
           /\ history[n].returned
           /\ \E sig \in Range(history[n].signatures) :
                  sig \notin SignaturesLevel0(builders_level_0)

-----------------------------------------------------------------------------
(* C36: the assertion of calculate_status holds in every reachable state of  *)
(* an entity builder: after any sequence of append_signature and             *)
(* skip_factor_sources calls no entity is at the same time signed            *)
(* (requirement fulfilled by override or threshold signatures) and invalid   *)
(* (unable to complete through the override and through the threshold        *)
(* factors).                                                                 *)
C36_NeverSignedAndInvalid ==
    \A i \in DOMAIN builders_level_0 : \A a \in DOMAIN builders_level_0[i] :
        ~(HasFulfilledSignaturesRequirement(builders_level_0[i][a])
              /\ IsInvalid(builders_level_0[i][a]))

(* after two deliveries one entity is signed and another is invalid          *)
C36_Witness ==
    /\ \E n \in DOMAIN history :
           history[n].call \in {"append_signature", "skip_factor_sources"}
    /\ \E i \in DOMAIN builders_level_0 : \E a \in DOMAIN builders_level_0[i] :
           /\ HasFulfilledSignaturesRequirement(builders_level_0[i][a])
           /\ Range(builders_level_0[i][a].signatures) # {}
    /\ \E i \in DOMAIN builders_level_0 : \E a \in DOMAIN builders_level_0[i] :
           /\ IsInvalid(builders_level_0[i][a])
           /\ Range(builders_level_0[i][a].signatures) # {}

-----------------------------------------------------------------------------
(* C37: each used factor source is prompted at most once during one sign()   *)
(* run, and prompted_factor_sources in the result is exactly the set of      *)
(* factor sources the user was prompted for, signed or skipped; a source the *)
(* run never reached is not in it.                                           *)
PromptsOf(id) ==
    { n \in DOMAIN history :
          history[n].call = "sign_or_skip" /\ history[n].factor_source = id }

C37_PromptedExactlyOnce ==
    /\ \A id \in ConfiguredIds : Cardinality(PromptsOf(id)) <= 1
    /\ pc = "returned" =>
           /\ Range(outcome.prompted_factor_sources)
                  = { id \in ConfiguredIds : PromptsOf(id) # {} }
           /\ Len(outcome.prompted_factor_sources)
                  = Cardinality(Range(outcome.prompted_factor_sources))

(* sign() has returned after the user was prompted for two factor sources    *)
C37_Witness ==
    /\ pc = "returned"
    /\ Len(outcome.prompted_factor_sources) >= 2
    /\ \A id \in Range(outcome.prompted_factor_sources) : PromptsOf(id) # {}

-----------------------------------------------------------------------------
(* C38: termination: for any finite set of transactions and factor sources,  *)
(* any sequence of user answers and any driver outcomes, sign() eventually   *)
(* returns an Outcome instead of aborting or looping forever.  A run that    *)
(* returns takes no step into an abort: that safety half is the formula.     *)
C38_SignReturnsInsteadOfAborting ==
    [][ pc = "do_sign" => pc' # "panicked" ]_vars

-----------------------------------------------------------------------------
(* C39: in the entity builder append_signature and skip_factor_sources       *)
(* complete without panic whenever the recomputed status equals the stored   *)
(* status or is a legal successor of it: update_status panics only in a      *)
(* builder whose recomputed status is neither.  Recording the first of two   *)
(* required threshold signatures, or a skip that leaves the quorum reachable,*)
(* leaves the entity Building.                                               *)
SameOrLegalSuccessor(current, new) == current = new \/ ValidTransition(current, new)

C39_NoPanicOnLegalStatus ==
    panic = InvalidStatusTransition =>
        \E i \in DOMAIN builders_level_0 : \E a \in DOMAIN builders_level_0[i] :
            ~SameOrLegalSuccessor(builders_level_0[i][a].status,
                                  CalculateStatus(builders_level_0[i][a]))

-----------------------------------------------------------------------------
(* SignaturesBuilder::new over every threshold a MatrixOfFactorInstances can *)
(* carry (`pub threshold: u8`)                                               *)

U8Max == 255

ThresholdTransactions ==
    { <<<<AccountOrPersona("E1", Securified(<<LedgerA, LedgerB>>, threshold, <<>>))>>>>
      : threshold \in 0..U8Max }

InitThresholds ==
    /\ all_factor_sources_in_profile \in Profiles
    /\ transactions \in ThresholdTransactions
    /\ factors_of_kind = <<>>
    /\ factor_to_txid = <<>>
    /\ petitions = <<>>
    /\ outcome = NoOutcome
    /\ cursor = 0
    /\ builders_level_0 = <<>>
    /\ prompted_factor_sources = <<>>
    /\ failed_transactions = <<>>
    /\ history = <<>>
    /\ pc = "new"
    /\ panic = NoPanic

NextThresholds == New

SpecThresholds == InitThresholds /\ [][NextThresholds]_vars

(* C40: for every threshold value a policy can carry (0..255) the threshold  *)
(* list petition's required count equals that value: a threshold above 127   *)
(* is never wrapped into a negative required count that makes the list       *)
(* Success with zero signatures.                                             *)
C40_RequiredEqualsThreshold ==
    pc = "constructed" =>
        \A i \in DOMAIN petitions : \A n \in DOMAIN petitions[i].for_entities :
            LET p == petitions[i].for_entities[n]
                policy == PolicyOf(i, p.entity)
            IN  /\ p.threshold_factors.required = policy.threshold
                /\ p.threshold_factors.required >= 0
                /\ policy.threshold > 0 =>
                       ListStatus(p.threshold_factors) # "Success"

====
